---- MODULE Spec2Model ----
(***************************************************************************)
(* Model of the email QA rules engine (email_qa/rules/engine.py), of the   *)
(* link validator (email_qa/tools/link_validator.py), of the document      *)
(* parser (automated_email_qa/tools/universal_parser.py) and of the two    *)
(* email parsers (automated_email_qa/tools/email_parser.py and             *)
(* email_qa/tools/email_parser.py).                                        *)
(*                                                                         *)
(* Text is a sequence of one-character strings, so that lower(), upper(),  *)
(* strip(), replace() and substring search are computed as Python computes *)
(* them.  A Python dict is a function whose DOMAIN is its key set; a list  *)
(* is a sequence; None is the value None below.  A message built by an     *)
(* f-string is the tuple of its fixed head and its interpolated values.    *)
(***************************************************************************)
EXTENDS Integers, Sequences, FiniteSets, TLC

VARIABLES files, loaded_rules, call, result, heap, instance

vars == <<files, loaded_rules, call, result, heap, instance>>

(***************************************************************************)
(* Python values and string methods                                        *)
(***************************************************************************)
None == "<None>"

EmptyDict == [k \in {} |-> None]

\* heap is the sequence of the mutable objects (lists and dicts) created so
\* far, an object being known by its index; instance holds the attributes
\* of the workflow, parser and legacy engine instances.  Neither is used by
\* the rules engine, the link validator and the parser functions, whose
\* values are not shared between calls.
NoObjects == heap = <<>> /\ instance = EmptyDict

Get(d, k, default) == IF k \in DOMAIN d THEN d[k] ELSE default

Truthy(s) == s # None /\ s # ""

LowerChars == <<"a","b","c","d","e","f","g","h","i","j","k","l","m",
                "n","o","p","q","r","s","t","u","v","w","x","y","z">>

UpperChars == <<"A","B","C","D","E","F","G","H","I","J","K","L","M",
                "N","O","P","Q","R","S","T","U","V","W","X","Y","Z">>

Digits == {"0","1","2","3","4","5","6","7","8","9"}

IsUpperChar(c) == \E i \in 1..26 : UpperChars[i] = c

IsLowerChar(c) == \E i \in 1..26 : LowerChars[i] = c

LowerChar(c) ==
    IF IsUpperChar(c)
    THEN LowerChars[CHOOSE i \in 1..26 : UpperChars[i] = c]
    ELSE c

UpperChar(c) ==
    IF IsLowerChar(c)
    THEN UpperChars[CHOOSE i \in 1..26 : LowerChars[i] = c]
    ELSE c

Lower(s) == [i \in 1..Len(s) |-> LowerChar(s[i])]

Upper(s) == [i \in 1..Len(s) |-> UpperChar(s[i])]

StartsWith(s, p) == Len(p) <= Len(s) /\ SubSeq(s, 1, Len(p)) = p

\* Python's `sub in s` for strings
Contains(sub, s) ==
    \E i \in 0..(Len(s) - Len(sub)) : SubSeq(s, i + 1, i + Len(sub)) = sub

\* Python's s.replace(old, new) for a non-empty old: leftmost, non-overlapping
RECURSIVE Replace(_, _, _)
Replace(s, old, new) ==
    IF Len(s) = 0 THEN <<>>
    ELSE IF StartsWith(s, old)
         THEN new \o Replace(SubSeq(s, Len(old) + 1, Len(s)), old, new)
         ELSE <<s[1]>> \o Replace(Tail(s), old, new)

\* Python's s.strip(chars)
RECURSIVE LStrip(_, _)
LStrip(s, chars) ==
    IF Len(s) > 0 /\ s[1] \in chars THEN LStrip(Tail(s), chars) ELSE s

RECURSIVE RStrip(_, _)
RStrip(s, chars) ==
    IF Len(s) > 0 /\ s[Len(s)] \in chars
    THEN RStrip(SubSeq(s, 1, Len(s) - 1), chars)
    ELSE s

Strip(s, chars) == RStrip(LStrip(s, chars), chars)

Whitespace == {" ", "\t", "\n"}

\* Python's str.istitle(): uppercase letters only after uncased characters,
\* lowercase letters only after cased ones, and at least one cased character
RECURSIVE IsTitleFrom(_, _, _, _)
IsTitleFrom(s, i, prevCased, seenCased) ==
    IF i > Len(s) THEN seenCased
    ELSE IF IsUpperChar(s[i])
         THEN IF prevCased THEN FALSE ELSE IsTitleFrom(s, i + 1, TRUE, TRUE)
         ELSE IF IsLowerChar(s[i])
              THEN IF prevCased THEN IsTitleFrom(s, i + 1, TRUE, TRUE) ELSE FALSE
              ELSE IsTitleFrom(s, i + 1, FALSE, seenCased)

IsTitle(s) == IsTitleFrom(s, 1, FALSE, FALSE)

\* f"{a} {b}"
Sp(a, b) == a \o <<" ">> \o b

\* list.extend over a sequence of lists
RECURSIVE Flatten(_)
Flatten(ss) == IF Len(ss) = 0 THEN <<>> ELSE Head(ss) \o Flatten(Tail(ss))

SeqToSet(s) == {s[i] : i \in 1..Len(s)}


\* An insertion-ordered dict that the code iterates with .items() is a
\* sequence of <<key, value>> pairs with distinct keys
HasKey(items, k) == \E i \in 1..Len(items) : items[i][1] = k

ItemValue(items, k) == items[CHOOSE i \in 1..Len(items) : items[i][1] = k][2]

(***************************************************************************)
(* rules/engine.py: the five checks                                        *)
(***************************************************************************)
KeywordCheck(keywords, text) ==
    [required |-> keywords,
     found    |-> SelectSeq(keywords, LAMBDA kw : Contains(Lower(kw), text)),
     missing  |-> SelectSeq(keywords, LAMBDA kw : ~Contains(Lower(kw), text))]

_validate_segmentation(email_data, segmentation_rules, segment) ==
    LET segment_rules == Get(segmentation_rules, segment, EmptyDict)
        subject == Lower(Get(email_data, "subject", <<>>))
        preview == Lower(Get(email_data, "preview_text", <<>>))
        hasSubj == "required_subject_keywords" \in DOMAIN segment_rules
        hasPrev == "required_preview_keywords" \in DOMAIN segment_rules
        subjChk == KeywordCheck(segment_rules["required_subject_keywords"], subject)
        prevChk == KeywordCheck(segment_rules["required_preview_keywords"], preview)
    IN  IF DOMAIN segment_rules = {}
        THEN [segment |-> segment, checks |-> EmptyDict, issues |-> <<>>,
              warnings |-> << <<"No segmentation rules defined for segment", segment>> >>]
        ELSE [segment |-> segment,
              checks |->
                 (IF hasSubj THEN "subject_keywords" :> subjChk ELSE EmptyDict)
                 @@ (IF hasPrev THEN "preview_keywords" :> prevChk ELSE EmptyDict),
              issues |-> <<>>,
              warnings |->
                 (IF hasSubj /\ subjChk.missing # <<>>
                  THEN << <<"Subject line missing keywords", segment, subjChk.missing>> >>
                  ELSE <<>>)
                 \o (IF hasPrev /\ prevChk.missing # <<>>
                     THEN << <<"Preview text missing keywords", segment, prevChk.missing>> >>
                     ELSE <<>>)]

\* the list of module definitions to check (engine.py lines 303-316)
RequiredModules(module_rules, segment, campaign) ==
    (IF Truthy(segment) /\ segment \in DOMAIN module_rules
     THEN module_rules[segment] ELSE <<>>)
    \o (IF Truthy(campaign) /\ campaign \in DOMAIN module_rules
        THEN module_rules[campaign] ELSE <<>>)
    \o (IF "all" \in DOMAIN module_rules THEN module_rules["all"] ELSE <<>>)

\* the text searched for module keywords (engine.py lines 327-329)
ModuleContent(email_data) ==
    Sp(Lower(Get(email_data, "html_body", <<>>)),
       Lower(Get(email_data, "text_body", <<>>)))

ModuleFound(module, full_content) ==
    LET module_keywords == Get(module, "keywords", <<>>)
    IN  \E i \in 1..Len(module_keywords) :
            Contains(Lower(module_keywords[i]), full_content)

RECURSIVE ModuleLoop(_, _, _, _)
ModuleLoop(required_modules, i, full_content, res) ==
    IF i > Len(required_modules) THEN res
    ELSE LET module      == required_modules[i]
             module_name == Get(module, "name", <<>>)
             is_required == Get(module, "required", TRUE)
         IN  ModuleLoop(required_modules, i + 1, full_content,
               IF ModuleFound(module, full_content)
               THEN [res EXCEPT !.found_modules = Append(@, module_name)]
               ELSE IF is_required
                    THEN [res EXCEPT !.missing_modules = Append(@, module_name),
                                     !.issues = Append(@, <<"Required module missing", module_name>>)]
                    ELSE [res EXCEPT !.missing_modules = Append(@, module_name),
                                     !.warnings = Append(@, <<"Optional module missing", module_name>>)])

_validate_modules(email_data, module_rules, segment, campaign) ==
    LET required_modules == RequiredModules(module_rules, segment, campaign)
        empty == [required_modules |-> <<>>, found_modules |-> <<>>,
                  missing_modules |-> <<>>, issues |-> <<>>, warnings |-> <<>>]
    IN  IF required_modules = <<>>
        THEN [empty EXCEPT !.warnings = << <<"No module requirements defined">> >>]
        ELSE ModuleLoop(required_modules, 1, ModuleContent(email_data),
               [empty EXCEPT !.required_modules =
                   [i \in 1..Len(required_modules) |->
                       Get(required_modules[i], "name", <<"U","n","k","n","o","w","n">>)]])

TelPrefix == <<"t","e","l",":">>

\* engine.py lines 376-380
BrandPhoneFound(email_data, required_phone) ==
    LET links == Get(email_data, "links", <<>>)
        want  == Replace(Replace(Replace(Replace(required_phone,
                   <<"-">>, <<>>), <<" ">>, <<>>), <<"(">>, <<>>), <<")">>, <<>>)
        have(url) == Replace(Replace(Replace(Replace(url,
                   TelPrefix, <<>>), <<"-">>, <<>>), <<" ">>, <<>>), <<"+">>, <<>>)
    IN  \E i \in 1..Len(links) :
            /\ StartsWith(Get(links[i], "url", <<>>), TelPrefix)
            /\ Contains(want, have(links[i]["url"]))

BrandHandleFound(email_data, handle) ==
    LET links == Get(email_data, "links", <<>>)
        handle_lower == Strip(Lower(handle), {"@"})
    IN  \E i \in 1..Len(links) :
            \/ Contains(handle_lower, Lower(Get(links[i], "url", <<>>)))
            \/ Contains(handle_lower, Lower(Get(links[i], "text", <<>>)))

_validate_brand(email_data, brand_rules) ==
    LET hasPhone == "phone" \in DOMAIN brand_rules
        phone_found == BrandPhoneFound(email_data, brand_rules["phone"])
        socials == Get(brand_rules, "social_handles", <<>>)
        company == Get(brand_rules, "company_info", <<>>)
        html == Get(email_data, "html_body", <<>>)
        actual_from == Get(email_data, "from_name", <<>>)
        actual_email == Get(email_data, "from_email", <<>>)
        socialWarn(i) ==
            IF BrandHandleFound(email_data, socials[i][2]) THEN <<>>
            ELSE << <<"handle not found", socials[i][1], socials[i][2]>> >>
        companyWarn(i) ==
            IF company[i][2] # <<>> /\ ~Contains(company[i][2], html)
            THEN << <<"Company info not found in email", company[i][1], company[i][2]>> >>
            ELSE <<>>
    IN  [brand_checks |->
            (IF hasPhone THEN "phone" :> phone_found ELSE EmptyDict)
            @@ [k \in {socials[i][1] \o "_handle" : i \in 1..Len(socials)} |->
                  LET i == CHOOSE j \in 1..Len(socials) : socials[j][1] \o "_handle" = k
                  IN  BrandHandleFound(email_data, socials[i][2])],
         warnings |->
            (IF hasPhone /\ ~phone_found
             THEN << <<"Brand phone number not found", brand_rules["phone"]>> >> ELSE <<>>)
            \o Flatten([i \in 1..Len(socials) |-> socialWarn(i)])
            \o Flatten([i \in 1..Len(company) |-> companyWarn(i)])
            \o (IF "from_name" \in DOMAIN brand_rules /\ actual_from # brand_rules["from_name"]
                THEN << <<"From name mismatch", brand_rules["from_name"], actual_from>> >>
                ELSE <<>>)
            \o (IF "from_email" \in DOMAIN brand_rules /\ actual_email # brand_rules["from_email"]
                THEN << <<"From email mismatch", brand_rules["from_email"], actual_email>> >>
                ELSE <<>>)]

\* the text searched for do and don't phrases (engine.py lines 445-450)
CopyText(email_data) ==
    Sp(Sp(Sp(Lower(Get(email_data, "subject", <<>>)),
             Lower(Get(email_data, "preview_text", <<>>))),
          Lower(Get(email_data, "html_body", <<>>))),
       Lower(Get(email_data, "text_body", <<>>)))

_check_dos_and_donts(email_data, dos_and_donts) ==
    LET full_text == CopyText(email_data)
        donts == Get(dos_and_donts, "donts", <<>>)
        dos   == Get(dos_and_donts, "dos", <<>>)
        phrase(d) == Lower(Get(d, "phrase", <<>>))
        hit == SelectSeq(donts, LAMBDA d : Contains(phrase(d), full_text))
        miss == SelectSeq(dos, LAMBDA d :
                   /\ Get(d, "check_presence", FALSE)
                   /\ phrase(d) # <<>>
                   /\ ~Contains(phrase(d), full_text))
    IN  [dos_violations |-> <<>>,
         donts_violations |->
            [i \in 1..Len(hit) |->
                [phrase |-> phrase(hit[i]),
                 reason |-> Get(hit[i], "reason", <<>>),
                 severity |-> Get(hit[i], "severity", "warning")]],
         warnings |->
            [i \in 1..Len(hit) |->
                <<"DON'T violation", Get(hit[i], "severity", "warning"),
                  phrase(hit[i]), Get(hit[i], "reason", <<>>)>>]
            \o [i \in 1..Len(miss) |->
                <<"DO recommendation", phrase(miss[i]), Get(miss[i], "context", <<>>)>>]]

AddressWords == {<<"s","t","r","e","e","t">>, <<"p","k","w","y">>,
                 <<"a","v","e","n","u","e">>, <<"r","o","a","d">>}

\* engine.py line 500
HasUnsubDefaultTrue(email_data) == Get(email_data, "has_unsubscribe", TRUE)

HasUnsub(email_data) == Get(email_data, "has_unsubscribe", FALSE)

\* engine.py lines 508-513
HasAddress(email_data) ==
    \E w \in AddressWords : Contains(w, Lower(Get(email_data, "html_body", <<>>)))

\* engine.py lines 522-524
HasCompany(email_data) == Get(email_data, "from_name", <<>>) # <<>>

RECURSIVE ElementLoop(_, _, _, _)
ElementLoop(required_elements, i, email_data, res) ==
    IF i > Len(required_elements) THEN res
    ELSE LET element == required_elements[i]
             has_unsub == HasUnsub(email_data)
             has_address == HasAddress(email_data)
             has_company == HasCompany(email_data)
         IN  ElementLoop(required_elements, i + 1, email_data,
               IF element = "unsubscribe_link"
               THEN [res EXCEPT
                       !.compliance_checks = ("unsubscribe" :> has_unsub) @@ @,
                       !.issues = IF has_unsub THEN @
                                  ELSE Append(@, <<"Missing required unsubscribe link (CAN-SPAM violation)">>)]
               ELSE IF element = "physical_address"
               THEN [res EXCEPT
                       !.compliance_checks = ("physical_address" :> has_address) @@ @,
                       !.warnings = IF has_address THEN @
                                    ELSE Append(@, <<"Physical address may be missing (CAN-SPAM requires it)">>)]
               ELSE IF element = "company_name"
               THEN [res EXCEPT
                       !.compliance_checks = ("company_name" :> has_company) @@ @,
                       !.warnings = IF has_company THEN @
                                    ELSE Append(@, <<"Company name should be clearly visible">>)]
               ELSE res)

CtaStyleWarnings(email_data, compliance_rules) ==
    LET required_case == Get(Get(compliance_rules, "cta_style", EmptyDict), "case", "")
        ctas == Get(email_data, "ctas", <<>>)
        warn(i) ==
            LET cta_text == Get(ctas[i], "text", <<>>)
            IN  IF required_case = "UPPERCASE" /\ cta_text # Upper(cta_text)
                THEN << <<"CTA not uppercase", cta_text>> >>
                ELSE IF required_case = "Title Case" /\ ~IsTitle(cta_text)
                     THEN << <<"CTA not title case", cta_text>> >>
                     ELSE <<>>
    IN  IF "cta_style" \in DOMAIN compliance_rules /\ required_case # ""
        THEN Flatten([i \in 1..Len(ctas) |-> warn(i)])
        ELSE <<>>

_validate_compliance(email_data, compliance_rules) ==
    LET res == ElementLoop(Get(compliance_rules, "required_elements", <<>>), 1, email_data,
                 [compliance_checks |-> EmptyDict, issues |-> <<>>, warnings |-> <<>>])
    IN  [res EXCEPT !.warnings = @ \o CtaStyleWarnings(email_data, compliance_rules)]


(***************************************************************************)
(* rules/engine.py: rule files, cache and the public operations            *)
(*                                                                         *)
(* files[key] is the content of <rules_dir>/<key>.json: kind "absent" (no  *)
(* file), "invalid" (not JSON) or "json" with the decoded object in doc.   *)
(***************************************************************************)
ClientKey(client_name) ==
    Replace(Replace(Lower(client_name), <<" ">>, <<"_">>), <<"-">>, <<"_">>)

StructureNotChecked(rules) == TRUE

\* _validate_rules_structure: TRUE when it returns, FALSE when it raises
_validate_rules_structure(rules) == "client_name" \in DOMAIN rules

\* load_rules: the outcome and the cache it leaves behind
LoadRulesNoCache(client_name, fs, cache) ==
    LET client_key == ClientKey(client_name)
        file == fs[client_key]
    IN  IF client_key \notin DOMAIN fs \/ file.kind = "absent"
        THEN [raised |-> "FileNotFoundError", rules |-> EmptyDict, cache |-> cache]
        ELSE IF file.kind = "invalid" \/ ~_validate_rules_structure(file.doc)
        THEN [raised |-> "ValueError", rules |-> EmptyDict, cache |-> cache]
        ELSE [raised |-> None, rules |-> file.doc,
              cache |-> (client_key :> file.doc) @@ cache]

load_rules(client_name, fs, cache) ==
    LET client_key == ClientKey(client_name)
        file == fs[client_key]
    IN  IF client_key \in DOMAIN cache
        THEN [raised |-> None, rules |-> cache[client_key], cache |-> cache]
        ELSE IF client_key \notin DOMAIN fs \/ file.kind = "absent"
        THEN [raised |-> "FileNotFoundError", rules |-> EmptyDict, cache |-> cache]
        ELSE IF file.kind = "invalid"
        THEN [raised |-> "ValueError", rules |-> EmptyDict, cache |-> cache]
        ELSE IF ~_validate_rules_structure(file.doc)
        THEN [raised |-> "ValueError", rules |-> EmptyDict, cache |-> cache]
        ELSE [raised |-> None, rules |-> file.doc,
              cache |-> (client_key :> file.doc) @@ cache]

\* `"<section>" in rules` (engine.py lines 175, 183, 191, 198, 206)
SectionAlwaysRun(rules, section) == TRUE

SectionPresent(rules, section) == section \in DOMAIN rules

\* the overall verdict (engine.py lines 168, 215-216)
PassedNeverCleared(issues) == TRUE

OverallPassed(issues) == IF issues # <<>> THEN FALSE ELSE TRUE

\* validate_against_rules once the rules are loaded (engine.py lines 164-223);
\* rules[section] is read only under SectionPresent, where it is Get's value
RunChecks(email_data, rules, client_name, segment, campaign) ==
    LET doSeg  == SectionPresent(rules, "segmentation") /\ Truthy(segment)
        doMod  == SectionPresent(rules, "modules")
        doBrand == SectionPresent(rules, "brand")
        doCopy == SectionPresent(rules, "dos_and_donts")
        doComp == SectionPresent(rules, "compliance")
        seg_result == _validate_segmentation(email_data,
                         Get(rules, "segmentation", EmptyDict), segment)
        mod_result == _validate_modules(email_data,
                         Get(rules, "modules", EmptyDict), segment, campaign)
        brand_result == _validate_brand(email_data, Get(rules, "brand", EmptyDict))
        copy_result == _check_dos_and_donts(email_data, Get(rules, "dos_and_donts", EmptyDict))
        compliance_result == _validate_compliance(email_data, Get(rules, "compliance", EmptyDict))
        issues ==
            (IF doSeg THEN seg_result.issues ELSE <<>>)
            \o (IF doMod THEN mod_result.issues ELSE <<>>)
            \o (IF doComp THEN compliance_result.issues ELSE <<>>)
        warnings ==
            (IF doSeg THEN seg_result.warnings ELSE <<>>)
            \o (IF doMod THEN mod_result.warnings ELSE <<>>)
            \o (IF doBrand THEN brand_result.warnings ELSE <<>>)
            \o (IF doCopy THEN copy_result.warnings ELSE <<>>)
            \o (IF doComp THEN compliance_result.warnings ELSE <<>>)
    IN  [client |-> client_name, segment |-> segment, campaign |-> campaign,
         passed |-> OverallPassed(issues),
         issues |-> issues,
         warnings |-> warnings,
         validations |->
            (IF doSeg THEN "segmentation" :> seg_result ELSE EmptyDict)
            @@ (IF doMod THEN "modules" :> mod_result ELSE EmptyDict)
            @@ (IF doBrand THEN "brand" :> brand_result ELSE EmptyDict)
            @@ (IF doCopy THEN "copywriting" :> copy_result ELSE EmptyDict)
            @@ (IF doComp THEN "compliance" :> compliance_result ELSE EmptyDict)]

NoRulesWithoutIssue(client_name, segment, campaign) ==
    [client |-> client_name, segment |-> segment, campaign |-> campaign,
     passed |-> FALSE,
     error |-> <<"No rules file found for client", client_name>>,
     issues |-> <<>>,
     warnings |-> <<>>,
     validations |-> EmptyDict]

\* the result returned when load_rules raises FileNotFoundError
NoRulesResult(client_name, segment, campaign) ==
    [client |-> client_name, segment |-> segment, campaign |-> campaign,
     passed |-> FALSE,
     error |-> <<"No rules file found for client", client_name>>,
     issues |-> << <<"No rules configured for client", client_name>> >>,
     warnings |-> <<>>,
     validations |-> EmptyDict]

Raised(exc) == [raised |-> exc, value |-> EmptyDict]

Returned(v) == [raised |-> None, value |-> v]

LoadRules(client_name) ==
    LET lr == load_rules(client_name, files, loaded_rules)
    IN  /\ call' = [op |-> "load_rules", client_name |-> client_name]
        /\ loaded_rules' = lr.cache
        /\ result' = IF lr.raised # None THEN Raised(lr.raised) ELSE Returned(lr.rules)
        /\ UNCHANGED <<files, heap, instance>>

ValidateAgainstRules(email_data, client_name, segment, campaign) ==
    LET lr == load_rules(client_name, files, loaded_rules)
    IN  /\ call' = [op |-> "validate_against_rules", email_data |-> email_data,
                    client_name |-> client_name, segment |-> segment,
                    campaign |-> campaign]
        /\ loaded_rules' = lr.cache
        /\ result' =
              IF lr.raised = "FileNotFoundError"
              THEN Returned(NoRulesResult(client_name, segment, campaign))
              ELSE IF lr.raised # None THEN Raised(lr.raised)
              ELSE Returned(RunChecks(email_data, lr.rules, client_name, segment, campaign))
        /\ UNCHANGED <<files, heap, instance>>

GetRequiredCtas(client_name, segment) ==
    LET lr == load_rules(client_name, files, loaded_rules)
        ctas == lr.rules["ctas"]
    IN  /\ call' = [op |-> "get_required_ctas", client_name |-> client_name,
                    segment |-> segment]
        /\ loaded_rules' = lr.cache
        /\ result' =
              IF lr.raised = "FileNotFoundError" THEN Returned(<<>>)
              ELSE IF lr.raised # None THEN Raised(lr.raised)
              ELSE IF "ctas" \notin DOMAIN lr.rules THEN Returned(<<>>)
              ELSE IF Truthy(segment) /\ segment \in DOMAIN ctas THEN Returned(ctas[segment])
              ELSE IF "all" \in DOMAIN ctas THEN Returned(ctas["all"])
              ELSE Returned(<<>>)
        /\ UNCHANGED <<files, heap, instance>>

GetUtmRequirements(client_name) ==
    LET lr == load_rules(client_name, files, loaded_rules)
    IN  /\ call' = [op |-> "get_utm_requirements", client_name |-> client_name]
        /\ loaded_rules' = lr.cache
        /\ result' =
              IF lr.raised = "FileNotFoundError" THEN Returned(EmptyDict)
              ELSE IF lr.raised # None THEN Raised(lr.raised)
              ELSE Returned(Get(lr.rules, "utm_requirements", EmptyDict))
        /\ UNCHANGED <<files, heap, instance>>

\* the operator edits, creates or removes a rule file on disk
WriteRulesFile(client_key, content) ==
    /\ files[client_key] # content
    /\ files' = [files EXCEPT ![client_key] = content]
    /\ call' = [op |-> "write_rules_file", client_key |-> client_key]
    /\ result' = Returned(EmptyDict)
    /\ UNCHANGED <<loaded_rules, heap, instance>>


(***************************************************************************)
(* tools/link_validator.py                                                 *)
(***************************************************************************)
\* _validate_ctas; raises KeyError when a CTA has no "text" key
CtasHaveText(email_ctas) ==
    \A i \in 1..Len(email_ctas) : "text" \in DOMAIN email_ctas[i]

\* the normalization applied to both sides of the CTA comparison
NormalizeCta(text) == Upper(Strip(text, Whitespace))

CtaResult(email_ctas, required_ctas, missing, notUpper) ==
    [found_ctas |-> [i \in 1..Len(email_ctas) |-> email_ctas[i]["text"]],
     required_ctas |-> required_ctas,
     missing_ctas |-> missing,
     issues |-> [i \in 1..Len(missing) |-> <<"Missing required CTA", missing[i]>>],
     warnings |-> [i \in 1..Len(notUpper) |-> <<"CTA not uppercase", notUpper[i]["text"]>>]]

\* the required CTAs whose normalized text is not among email_cta_texts
MissingCtas(required_ctas, email_cta_texts) ==
    SelectSeq(required_ctas, LAMBDA r : NormalizeCta(r) \notin SeqToSet(email_cta_texts))

_validate_ctas(email_ctas, required_ctas) ==
    CtaResult(email_ctas, required_ctas,
       MissingCtas(required_ctas,
          [i \in 1..Len(email_ctas) |-> NormalizeCta(email_ctas[i]["text"])]),
       SelectSeq(email_ctas, LAMBDA c : c["text"] # Upper(c["text"])))

MailtoPrefix == <<"m","a","i","l","t","o",":">>

\* _check_link_status; http[i] is what the HTTP probe of links[i] does:
\* "200", another status code, "timeout" or "error" (any other exception).
\* The probed URL (rewritten by _extract_final_url for tracking links) only
\* selects the server answer, which is the environment's choice here.
RECURSIVE StatusLoop(_, _, _, _)
StatusLoop(links, i, http, res) ==
    IF i > Len(links) THEN res
    ELSE LET link == links[i]
             url == Get(link, "url", <<>>)
             entry == [url |-> Get(link, "url", None), text |-> Get(link, "text", None),
                       status |-> http[i]]
         IN  StatusLoop(links, i + 1, http,
               IF StartsWith(url, MailtoPrefix) \/ StartsWith(url, TelPrefix) THEN res
               ELSE IF http[i] = "200"
                    THEN [res EXCEPT !.working_links = Append(@, entry)]
               ELSE IF http[i] = "timeout"
                    THEN [res EXCEPT !.warnings = Append(@, <<"Link timed out", entry.text>>)]
               ELSE IF http[i] = "error"
                    THEN [res EXCEPT !.broken_links = Append(@, entry),
                                     !.issues = Append(@, <<"Link check failed", entry.text>>)]
               ELSE [res EXCEPT !.broken_links = Append(@, entry),
                                !.issues = Append(@, <<"Link returned", http[i], entry.text>>)])

_check_link_status(links, http) ==
    StatusLoop(links, 1, http,
       [working_links |-> <<>>, broken_links |-> <<>>, issues |-> <<>>, warnings |-> <<>>])

\* links skipped by the UTM check
NonTrackable(url) ==
    StartsWith(url, MailtoPrefix) \/ StartsWith(url, TelPrefix) \/ StartsWith(url, <<"#">>)

RECURSIVE UtmValueLoop(_, _, _, _)
UtmValueLoop(utm_values, j, link, res) ==
    IF j > Len(utm_values) THEN res
    ELSE LET param == utm_values[j][1]
             expected_value == utm_values[j][2]
             actual_value == Get(Get(link, "utm_params", EmptyDict), "utm_" \o param, None)
         IN  UtmValueLoop(utm_values, j + 1, link,
               IF Truthy(actual_value) /\ actual_value # expected_value
               THEN [res EXCEPT
                       !.utm_errors = Append(@, [url |-> Get(link, "url", <<>>), param |-> param,
                                                 expected |-> expected_value, actual |-> actual_value]),
                       !.issues = Append(@, <<"UTM param mismatch", Get(link, "text", None),
                                              param, expected_value, actual_value>>)]
               ELSE res)

\* link_validator.py lines 295-314
PlaceLinkAsIssue(res, link, url, missing_params) ==
    IF missing_params # <<>>
    THEN [res EXCEPT
            !.links_missing_utm = Append(@, [url |-> url, text |-> Get(link, "text", None),
                                            missing |-> missing_params]),
            !.issues = Append(@, <<"Link missing UTM params", missing_params,
                                   Get(link, "text", None)>>)]
    ELSE [res EXCEPT
            !.links_with_utm = Append(@, [url |-> url, text |-> Get(link, "text", None),
                                         params |-> Get(link, "utm_params", EmptyDict)])]

PlaceLink(res, link, url, missing_params) ==
    IF missing_params # <<>>
    THEN [res EXCEPT
            !.links_missing_utm = Append(@, [url |-> url, text |-> Get(link, "text", None),
                                            missing |-> missing_params]),
            !.warnings = Append(@, <<"Link missing UTM params", missing_params,
                                     Get(link, "text", None)>>)]
    ELSE [res EXCEPT
            !.links_with_utm = Append(@, [url |-> url, text |-> Get(link, "text", None),
                                         params |-> Get(link, "utm_params", EmptyDict)])]

MissingParams(required_utm_params, utm_params) ==
    SelectSeq(required_utm_params, LAMBDA param : ("utm_" \o param) \notin DOMAIN utm_params)

\* one iteration of the loop over links (link_validator.py lines 285-329)
UtmStep(res, link, url, required_utm_params, utm_values) ==
    IF NonTrackable(url) THEN res
    ELSE IF required_utm_params # <<>>
         THEN UtmValueLoop(utm_values, 1, link,
                 PlaceLink(res, link, url,
                    MissingParams(required_utm_params, Get(link, "utm_params", EmptyDict))))
         ELSE res

RECURSIVE UtmLoop(_, _, _, _, _)
UtmLoop(links, i, required_utm_params, utm_values, res) ==
    IF i > Len(links) THEN res
    ELSE UtmLoop(links, i + 1, required_utm_params, utm_values,
            UtmStep(res, links[i], Get(links[i], "url", <<>>), required_utm_params, utm_values))

_validate_utm_params(links, utm_requirements) ==
    UtmLoop(links, 1,
       Get(utm_requirements, "required_params", <<>>),
       Get(utm_requirements, "expected_values", <<>>),
       [links_with_utm |-> <<>>, links_missing_utm |-> <<>>, utm_errors |-> <<>>,
        issues |-> <<>>, warnings |-> <<>>])

\* re.sub(r'[^\d]', '', phone), then the leading 1 of an 11-digit number dropped
NormalizeKeepsCountryCode(phone) == SelectSeq(phone, LAMBDA c : c \in Digits)

_normalize_phone(phone) ==
    LET digits_only == SelectSeq(phone, LAMBDA c : c \in Digits)
    IN  IF Len(digits_only) = 11 /\ digits_only[1] = "1"
        THEN Tail(digits_only)
        ELSE digits_only

AllDigits(s, from, n) ==
    /\ from + n - 1 <= Len(s)
    /\ \A k \in from..(from + n - 1) : s[k] \in Digits

SkipSep(s, j) == IF j <= Len(s) /\ s[j] \in {"-", "."} THEN j + 1 ELSE j

\* the index of the last character of a match of \d{3}[-.]?\d{3}[-.]?\d{4}
\* starting at i, or 0 when there is none
PhoneMatchEnd(s, i) ==
    IF ~AllDigits(s, i, 3) THEN 0
    ELSE LET j == SkipSep(s, i + 3)
         IN  IF ~AllDigits(s, j, 3) THEN 0
             ELSE LET k == SkipSep(s, j + 3)
                  IN  IF AllDigits(s, k, 4) THEN k + 3 ELSE 0

\* re.findall of the phone pattern: leftmost, non-overlapping
RECURSIVE FindPhones(_, _)
FindPhones(s, i) ==
    IF i > Len(s) THEN <<>>
    ELSE LET e == PhoneMatchEnd(s, i)
         IN  IF e = 0 THEN FindPhones(s, i + 1)
             ELSE <<SubSeq(s, i, e)>> \o FindPhones(s, e + 1)

\* a tel: link (link_validator.py lines 356-372)
TelStep(res, url, text, phone_raw, phone_normalized, required_phone, required_normalized) ==
    IF StartsWith(url, TelPrefix)
    THEN [res EXCEPT
            !.phone_links = Append(@, [text |-> text, phone |-> phone_normalized, url |-> url]),
            !.issues = IF phone_normalized # required_normalized
                       THEN Append(@, <<"Phone number mismatch", required_phone, phone_raw, text>>)
                       ELSE @]
    ELSE res

\* phone numbers in the link text (link_validator.py lines 374-382)
TextStep(res, bad, required_phone) ==
    [res EXCEPT !.warnings =
        @ \o [k \in 1..Len(bad) |-> <<"Phone in text doesn't match", bad[k], required_phone>>]]

MismatchedTokens(text, required_normalized) ==
    SelectSeq(FindPhones(text, 1), LAMBDA m : _normalize_phone(m) # required_normalized)

PhoneStep(res, url, text, phone_raw, required_phone, required_normalized) ==
    TextStep(TelStep(res, url, text, phone_raw, _normalize_phone(phone_raw),
                     required_phone, required_normalized),
             MismatchedTokens(text, required_normalized), required_phone)

RECURSIVE PhoneLoop(_, _, _, _, _)
PhoneLoop(links, i, required_phone, required_normalized, res) ==
    IF i > Len(links) THEN res
    ELSE PhoneLoop(links, i + 1, required_phone, required_normalized,
            PhoneStep(res, Get(links[i], "url", <<>>), Get(links[i], "text", <<>>),
                      Replace(Get(links[i], "url", <<>>), TelPrefix, <<>>),
                      required_phone, required_normalized))

\* link_validator.py lines 384-390
PhoneVerdict(res, required_phone, required_normalized) ==
    IF /\ required_normalized # <<>>
       /\ required_normalized \notin {res.phone_links[k].phone : k \in 1..Len(res.phone_links)}
    THEN [res EXCEPT !.issues = Append(@, <<"Required phone number not found", required_phone>>)]
    ELSE res

PhoneCheck(links, required_phone, required_normalized) ==
    PhoneVerdict(PhoneLoop(links, 1, required_phone, required_normalized,
                    [phone_links |-> <<>>, issues |-> <<>>, warnings |-> <<>>]),
                 required_phone, required_normalized)

_validate_phone_numbers(links, required_phone) ==
    IF required_phone = <<>>
    THEN [phone_links |-> <<>>, issues |-> <<>>, warnings |-> <<>>]
    ELSE PhoneCheck(links, required_phone, _normalize_phone(required_phone))

\* the least index of a character of chars in s, or 0
FirstIndex(s, chars) ==
    IF \E i \in 1..Len(s) : s[i] \in chars
    THEN CHOOSE i \in 1..Len(s) : s[i] \in chars /\ \A j \in 1..(i - 1) : s[j] \notin chars
    ELSE 0

LastIndex(s, chars) ==
    IF \E i \in 1..Len(s) : s[i] \in chars
    THEN CHOOSE i \in 1..Len(s) : s[i] \in chars /\ \A j \in (i + 1)..Len(s) : s[j] \notin chars
    ELSE 0

SchemeChars == SeqToSet(LowerChars) \cup SeqToSet(UpperChars) \cup Digits \cup {"+", "-", "."}

\* urllib.parse: schemes whose last path segment may carry ;parameters
uses_params ==
    {<<>>,
     <<"f","t","p">>,
     <<"h","d","l">>,
     <<"p","r","o","s","p","e","r","o">>,
     <<"h","t","t","p">>,
     <<"i","m","a","p">>,
     <<"h","t","t","p","s">>,
     <<"s","h","t","t","p">>,
     <<"r","t","s","p">>,
     <<"r","t","s","p","u">>,
     <<"s","i","p">>,
     <<"s","i","p","s">>,
     <<"m","m","s">>,
     <<"s","f","t","p">>,
     <<"t","e","l">>}

\* the index of the colon that ends a URL scheme, or 0 without a scheme
SchemeEnd(url, colon) ==
    IF /\ colon > 1
       /\ IsLowerChar(url[1]) \/ IsUpperChar(url[1])
       /\ \A k \in 1..(colon - 1) : url[k] \in SchemeChars
    THEN colon ELSE 0

\* what follows //netloc: from the first of / ? # on
AfterNetloc(rest, d) ==
    IF ~StartsWith(rest, <<"/","/">>) THEN rest
    ELSE IF d = 0 THEN <<>> ELSE SubSeq(rest, d + 2, Len(rest))

Before(s, i) == IF i = 0 THEN s ELSE SubSeq(s, 1, i - 1)

\* urllib.parse._splitparams: ;parameters of the last path segment dropped
SplitParams(scheme, path, slash) ==
    IF scheme \in uses_params
    THEN Before(path, IF FirstIndex(SubSeq(path, slash + 1, Len(path)), {";"}) = 0 THEN 0
                      ELSE slash + FirstIndex(SubSeq(path, slash + 1, Len(path)), {";"}))
    ELSE path

PathOnly(scheme, noFrag) ==
    SplitParams(scheme, Before(noFrag, FirstIndex(noFrag, {"?"})),
                LastIndex(Before(noFrag, FirstIndex(noFrag, {"?"})), {"/"}))

PathOfRest(scheme, after) == PathOnly(scheme, Before(after, FirstIndex(after, {"#"})))

PathAfterScheme(url, e) ==
    PathOfRest(Lower(SubSeq(url, 1, e - 1)),
       AfterNetloc(SubSeq(url, e + 1, Len(url)),
                   FirstIndex(SubSeq(url, e + 3, Len(url)), {"/", "?", "#"})))

\* urllib.parse.urlparse(url).path
UrlPath(url) == PathAfterScheme(url, SchemeEnd(url, FirstIndex(url, {":"})))

HandlePrefixes == <<<<"p","r","o","f","i","l","e","/">>, <<"u","s","e","r","/">>, <<"c","h","a","n","n","e","l","/">>>>

RECURSIVE StripPrefixes(_, _)
StripPrefixes(path, i) ==
    IF i > Len(HandlePrefixes) THEN path
    ELSE StripPrefixes(IF StartsWith(path, HandlePrefixes[i])
                       THEN Replace(path, HandlePrefixes[i], <<>>)
                       ELSE path, i + 1)

FirstSegment(path) == Before(path, FirstIndex(path, {"/"}))

_extract_social_handle(url, text) ==
    IF StartsWith(text, <<"@">>) THEN Strip(text, {"@"})
    ELSE FirstSegment(StripPrefixes(Strip(UrlPath(url), {"/"}), 1))

social_domains ==
    << <<"instagram", {<<"i","n","s","t","a","g","r","a","m",".","c","o","m">>}>>,
       <<"facebook", {<<"f","a","c","e","b","o","o","k",".","c","o","m">>}>>,
       <<"twitter", {<<"t","w","i","t","t","e","r",".","c","o","m">>, <<"x",".","c","o","m">>}>>,
       <<"linkedin", {<<"l","i","n","k","e","d","i","n",".","c","o","m">>}>>,
       <<"youtube", {<<"y","o","u","t","u","b","e",".","c","o","m">>, <<"y","o","u","t","u",".","b","e">>}>> >>

\* link_validator.py lines 455-462
HandleMismatch(required_social, platform, handle) ==
    /\ HasKey(required_social, platform)
    /\ handle # <<>>
    /\ ~Contains(Strip(Lower(ItemValue(required_social, platform)), {"@"}), handle)

\* a link on one of the platform's domains (link_validator.py lines 446-462)
PlatformStep(res, platform, url, text, handle, required_social) ==
    [res EXCEPT
       !.social_links = Append(@, [platform |-> platform, url |-> url,
                                   handle |-> handle, text |-> text]),
       !.issues =
          IF HandleMismatch(required_social, platform, handle)
          THEN Append(@, <<"handle mismatch", platform,
                           Strip(Lower(ItemValue(required_social, platform)), {"@"}), handle>>)
          ELSE @]

RECURSIVE PlatformLoop(_, _, _, _, _)
PlatformLoop(url, text, p, required_social, res) ==
    IF p > Len(social_domains) THEN res
    ELSE PlatformLoop(url, text, p + 1, required_social,
            IF \E domain \in social_domains[p][2] : Contains(domain, url)
            THEN PlatformStep(res, social_domains[p][1], url, text,
                              _extract_social_handle(url, text), required_social)
            ELSE res)

RECURSIVE SocialLoop(_, _, _, _)
SocialLoop(links, i, required_social, res) ==
    IF i > Len(links) THEN res
    ELSE SocialLoop(links, i + 1, required_social,
            PlatformLoop(Lower(Get(links[i], "url", <<>>)), Lower(Get(links[i], "text", <<>>)),
                         1, required_social, res))

\* link_validator.py lines 464-470
AbsentPlatforms(res, required_social) ==
    SelectSeq(required_social,
       LAMBDA item : item[1] \notin {res.social_links[k].platform : k \in 1..Len(res.social_links)})

SocialVerdict(res, absent) ==
    [res EXCEPT !.warnings =
        @ \o [k \in 1..Len(absent) |-> <<"Required link not found", absent[k][1], absent[k][2]>>]]

SocialCheck(res, required_social) == SocialVerdict(res, AbsentPlatforms(res, required_social))

_validate_social_handles(links, required_social) ==
    SocialCheck(SocialLoop(links, 1, required_social,
                   [social_links |-> <<>>, issues |-> <<>>, warnings |-> <<>>]),
                required_social)

\* the overall verdict of _run (link_validator.py lines 90, 138-139)
OverallSuccess(issues) == IF issues # <<>> THEN FALSE ELSE TRUE

\* the aggregation of the five validations (link_validator.py lines 89-147)
RunIssues(cta, status, utm, phone, social) ==
    cta.issues \o status.issues \o utm.issues \o phone.issues \o social.issues

RunWarnings(cta, status, utm, phone, social) ==
    cta.warnings \o status.warnings \o utm.warnings \o phone.warnings \o social.warnings

RunResult(check_http_status, cta, status, utm, phone, social) ==
    [success |-> OverallSuccess(RunIssues(cta, status, utm, phone, social)),
     cta_validation |-> cta,
     link_status |-> IF check_http_status THEN status ELSE EmptyDict,
     utm_validation |-> utm,
     phone_validation |-> phone,
     social_validation |-> social,
     issues |-> RunIssues(cta, status, utm, phone, social),
     warnings |-> RunWarnings(cta, status, utm, phone, social)]

\* the five validations on the decoded arguments
RunValidations(email_data, required_data, links, check_http_status, http) ==
    RunResult(check_http_status,
       _validate_ctas(Get(email_data, "ctas", <<>>), Get(required_data, "required_ctas", <<>>)),
       IF check_http_status THEN _check_link_status(links, http)
       ELSE [issues |-> <<>>, warnings |-> <<>>],
       _validate_utm_params(links, Get(required_data, "utm_requirements", EmptyDict)),
       _validate_phone_numbers(links, Get(required_data, "required_phone", <<>>)),
       _validate_social_handles(links, Get(required_data, "required_social", <<>>)))

\* the isinstance(list) normalization (link_validator.py lines 83-86)
EmailData(email_links) ==
    IF email_links.kind = "list"
    THEN [ctas |-> email_links.val, links |-> email_links.val]
    ELSE email_links.val

RequiredData(required_links) ==
    IF required_links.kind = "list"
    THEN [required_ctas |-> required_links.val, utm_requirements |-> EmptyDict]
    ELSE required_links.val

RunDecoded(email_data, required_data, check_http_status, http) ==
    IF ~CtasHaveText(Get(email_data, "ctas", <<>>))
    THEN [success |-> FALSE, error |-> "KeyError"]
    ELSE RunValidations(email_data, required_data, Get(email_data, "links", <<>>),
                        check_http_status, http)

\* _run after json.loads: an argument is kind "invalid" (not JSON), "list"
\* or "dict", with the decoded value in val
_run(email_links, required_links, check_http_status, http) ==
    IF email_links.kind = "invalid" \/ required_links.kind = "invalid"
    THEN [success |-> FALSE, error |-> "JSONDecodeError"]
    ELSE RunDecoded(EmailData(email_links), RequiredData(required_links),
                    check_http_status, http)

HttpOutcomes == {"200", "404", "timeout", "error"}

\* the number of links whose HTTP status _run probes
ProbedLinks(email_links, check_http_status) ==
    IF check_http_status /\ email_links.kind # "invalid"
    THEN Len(Get(EmailData(email_links), "links", <<>>))
    ELSE 0

LinkValidatorRun(email_links, required_links, check_http_status) ==
    \E http \in [1..ProbedLinks(email_links, check_http_status) -> HttpOutcomes] :
        /\ call' = [op |-> "_run", email_links |-> email_links,
                    required_links |-> required_links,
                    check_http_status |-> check_http_status, http |-> http]
        /\ result' = Returned(_run(email_links, required_links, check_http_status, http))
        /\ UNCHANGED <<files, loaded_rules, heap, instance>>


(***************************************************************************)
(* Inputs: rule documents, parsed emails and call arguments                *)
(***************************************************************************)
ModHero == [name |-> <<"H","e","r","o">>, keywords |-> <<<<"h","e","r","o">>>>, required |-> TRUE]

ModFoot == [name |-> <<"F","o","o","t">>, keywords |-> <<<<"F","o","o","t">>, <<"e","n","d">>>>, required |-> FALSE]

ModPromo == [name |-> <<"P","r","o","m","o">>, keywords |-> <<<<"s","a","l","e">>>>]

RulePhone == <<"7","7","0","-","6","3","7","-","0","4","4","1">>

DocFull ==
    [client_name |-> <<"A"," ","b">>,
     segmentation |->
        [prospects |-> [required_subject_keywords |-> <<<<"N","e","w">>>>,
                        required_preview_keywords |-> <<<<"h","i">>>>]],
     modules |-> [prospects |-> <<ModHero>>, launch |-> <<ModPromo>>,
                  all |-> <<ModFoot, ModPromo>>],
     ctas |-> [prospects |-> <<<<"G","O"," ","N","O","W">>>>, all |-> <<<<"B","U","Y">>>>],
     utm_requirements |-> [required_params |-> <<"source">>,
                           expected_values |-> << <<"source", "email">> >>],
     brand |-> [phone |-> RulePhone,
                social_handles |-> << <<"instagram", <<"@","A","c","m","e">>>> >>,
                company_info |-> << <<"name", <<"A","c","m","e">>>> >>,
                from_name |-> <<"A","c","m","e">>,
                from_email |-> <<"a","@","b",".","c">>],
     dos_and_donts |->
        [donts |-> <<[phrase |-> <<"F","r","e","e">>, reason |-> <<"s","p","a","m">>, severity |-> "error"],
                     [phrase |-> <<"w","i","n">>, reason |-> <<"h","y","p","e">>, severity |-> "warning"],
                     [phrase |-> <<"t","b","d">>]>>,
         dos |-> <<[phrase |-> <<"c","a","l","l">>, context |-> <<"c","t","a">>, check_presence |-> TRUE],
                   [phrase |-> <<"n","o","w">>]>>],
     compliance |->
        [required_elements |-> <<"unsubscribe_link", "physical_address", "company_name">>,
         cta_style |-> [case |-> "UPPERCASE"]]]

Restrict(d, keys) == [k \in (DOMAIN d) \cap keys |-> d[k]]

Sections == {"segmentation", "modules", "brand", "dos_and_donts", "compliance"}

DocMinimal == Restrict(DocFull, {"client_name"})

\* valid JSON without the required client_name key
DocNoName == Restrict(DocFull, {"modules", "compliance"})

DocUnsubOnly ==
    [client_name |-> <<"A"," ","b">>, compliance |-> [required_elements |-> <<"unsubscribe_link">>]]

DocTitleCase ==
    [client_name |-> <<"A"," ","b">>,
     modules |-> [owners |-> <<ModHero>>],
     compliance |-> [required_elements |-> <<"company_name", "physical_address">>,
                     cta_style |-> [case |-> "Title Case"]]]

\* the brand phone written with dots
DocDotPhone ==
    [client_name |-> <<"A"," ","b">>, brand |-> [phone |-> <<"7","7","0",".","6","3","7",".","0","4","4","1">>]]

\* the rule documents of the check-level specification: each section alone,
\* all but one section, none and all of them, and three special documents
CheckDocs ==
    {Restrict(DocFull, {"client_name"} \cup S) :
        S \in {{}, Sections} \cup {{x} : x \in Sections} \cup {Sections \ {x} : x \in Sections}}
    \cup {DocUnsubOnly, DocTitleCase, DocDotPhone}

EmailGood ==
    [subject |-> <<"N","e","w"," ","b","i","g"," ","S","a","l","e">>,
     preview_text |-> <<"H","i"," ","y","o","u">>,
     html_body |-> <<"H","E","R","O"," ","s","a","l","e"," ","e","n","d"," ","1"," ","M","a","i","n"," ","S","t","r","e","e","t"," ","A","c","m","e"," ","c","a","l","l">>,
     text_body |-> <<>>,
     links |-> <<[url |-> <<"t","e","l",":","+","1","7","7","0","6","3","7","0","4","4","1">>, text |-> <<"C","a","l","l">>],
                 [url |-> <<"h","t","t","p","s",":","/","/","i","n","s","t","a","g","r","a","m",".","c","o","m","/","a","c","m","e">>, text |-> <<"I","G">>]>>,
     ctas |-> <<[text |-> <<"G","O"," ","N","O","W">>, url |-> <<"h","t","t","p","s",":","/","/","a",".","b">>]>>,
     has_unsubscribe |-> TRUE,
     from_name |-> <<"A","c","m","e">>,
     from_email |-> <<"a","@","b",".","c">>]

EmailBad ==
    [subject |-> <<"F","R","E","E"," ","s","t","u","f","f">>,
     preview_text |-> <<>>,
     html_body |-> <<"y","o","u"," ","w","i","n">>,
     text_body |-> <<"t","b","d">>,
     links |-> <<[url |-> <<"t","e","l",":","5","5","5","-","5","5","5","-","5","5","5","5">>, text |-> <<"C","a","l","l">>]>>,
     ctas |-> <<[text |-> <<"G","o"," ","n","o","w">>, url |-> <<"#">>]>>,
     has_unsubscribe |-> FALSE,
     from_name |-> <<>>]

\* a warning-level don't phrase and nothing else wrong with the copy
EmailWin ==
    [subject |-> <<"y","o","u"," ","w","i","n">>,
     html_body |-> <<"h","e","r","o"," ","s","a","l","e"," ","f","o","o","t"," ","c","a","l","l"," ","r","o","a","d">>,
     ctas |-> <<[text |-> <<"G","o"," ","N","o","w">>, url |-> <<"#">>]>>,
     has_unsubscribe |-> TRUE,
     from_name |-> <<"A","c","m","e">>]

\* content only in the plain-text part, under the key text_body
EmailTextOnly ==
    [subject |-> <<"H","i">>,
     text_body |-> <<"H","e","r","o"," ","S","a","l","e">>,
     has_unsubscribe |-> TRUE]

EmailEmpty == EmptyDict

\* an email as _parse_eml_file returns it: the plain-text part is under the
\* key plain_body, and here it alone carries the content
EmailPlainOnly ==
    [subject |-> <<"H","i">>,
     from_name |-> <<"A","c","m","e">>,
     from_email |-> <<"a","@","b",".","c">>,
     preview_text |-> <<>>,
     html_body |-> <<>>,
     plain_body |-> <<"H","e","r","o"," ","s","a","l","e",","," ","f","r","e","e"," ","t","o"," ","w","i","n">>,
     links |-> <<[url |-> <<"t","e","l",":","+","1","7","7","0","6","3","7","0","4","4","1">>, text |-> <<"C","a","l","l">>]>>,
     ctas |-> <<>>,
     has_unsubscribe |-> FALSE]

Emails == {EmailGood, EmailBad, EmailWin, EmailTextOnly, EmailEmpty, EmailPlainOnly}

Segments == {None, "prospects", "all"}

Campaigns == {None, "launch", "prospects"}

ClientNames == {<<"A"," ","b">>, <<"a","-","B">>, <<"z">>}

ClientKeys == {ClientKey(n) : n \in ClientNames}

Absent == [kind |-> "absent", doc |-> EmptyDict]

InvalidJson == [kind |-> "invalid", doc |-> EmptyDict]

Json(d) == [kind |-> "json", doc |-> d]

\* what an uploaded rule file can hold
WrittenContents == {InvalidJson, Json(DocNoName), Json(DocMinimal), Json(DocFull)}

FileContents == {Absent} \cup WrittenContents


\* longest CTA list and longest link list of a link-validator input
MaxCtas == 2

MaxLinks == 2

SeqsUpTo(S, n) == UNION {[1..k -> S] : k \in 0..n}

Dict(v) == [kind |-> "dict", val |-> v]

List(v) == [kind |-> "list", val |-> v]

NotJson == [kind |-> "invalid", val |-> EmptyDict]

RunInput(e, r, c) == [email_links |-> e, required_links |-> r, check_http_status |-> c]

CtaPool ==
    {[text |-> <<"G","O"," ","N","O","W">>, url |-> <<"h","t","t","p","s",":","/","/","a",".","b">>],
     [text |-> <<"g","o"," ","n","o","w">>, url |-> <<"h","t","t","p","s",":","/","/","a",".","b">>],
     [text |-> <<" ","G","o"," "," ","N","o","w"," ">>, url |-> <<"h","t","t","p","s",":","/","/","a",".","b">>],
     [text |-> <<"B","U","Y">>, url |-> <<"#">>]}

RequiredCtaLists ==
    {<<<<"G","O"," ","N","O","W">>>>, <<<<"G","O"," ","N","O","W">>, <<"B","U","Y">>>>,
     <<<<" ","g","o"," ","n","o","w"," ">>>>, <<<<"G","O"," "," ","N","O","W">>>>}

CtaInputs(n) ==
    {RunInput(Dict([ctas |-> c, links |-> <<>>]), Dict([required_ctas |-> r]), FALSE) :
        c \in SeqsUpTo(CtaPool, n), r \in RequiredCtaLists}

PhoneLinkPool ==
    {[url |-> <<"t","e","l",":","+","1","7","7","0","6","3","7","0","4","4","1">>, text |-> <<"C","a","l","l">>],
     [url |-> <<"t","e","l",":","7","7","0","-","6","3","7","-","0","4","4","1">>, text |-> <<"7","7","0",".","6","3","7",".","0","4","4","1">>],
     [url |-> <<"t","e","l",":","7","7","0","6","3","7","0","4","4","2">>, text |-> <<"C","a","l","l"," ","7","7","0","-","6","3","7","-","0","4","4","2"," ","n","o","w">>],
     [url |-> <<"t","e","l",":","2","7","7","0","6","3","7","0","4","4","1">>, text |-> <<"T">>],
     [url |-> <<"h","t","t","p","s",":","/","/","a",".","b">>, text |-> <<"5","5","5","-","5","5","5","-","5","5","5","5">>],
     [url |-> <<"t","e","l",":">>, text |-> <<"x">>]}

RequiredPhones ==
    {<<"7","7","0","-","6","3","7","-","0","4","4","1">>, <<"1"," ","(","7","7","0",")"," ","6","3","7","-","0","4","4","1">>, <<"0","4","4","1">>, <<"n","/","a">>, <<>>}

PhoneInputs(n) ==
    {RunInput(Dict([ctas |-> <<>>, links |-> l]), Dict([required_phone |-> r]), FALSE) :
        l \in SeqsUpTo(PhoneLinkPool, n), r \in RequiredPhones}

UtmLinkPool ==
    {[url |-> <<"h","t","t","p","s",":","/","/","a",".","b","?","u","t","m","_","s","o","u","r","c","e","=","e","m","a","i","l">>, text |-> <<"A">>, utm_params |-> [utm_source |-> "email"]],
     [url |-> <<"h","t","t","p","s",":","/","/","a",".","b","?","u","t","m","_","s","o","u","r","c","e","=","f","a","c","e","b","o","o","k">>, text |-> <<"B">>, utm_params |-> [utm_source |-> "facebook"]],
     [url |-> <<"h","t","t","p","s",":","/","/","a",".","b">>, text |-> <<"C">>, utm_params |-> EmptyDict],
     [url |-> <<"m","a","i","l","t","o",":","a","@","b",".","c">>, text |-> <<"D">>, utm_params |-> [utm_source |-> "facebook"]],
     [url |-> <<"#">>, text |-> <<"E">>],
     [url |-> <<"h","t","t","p","s",":","/","/","a",".","b","?","u","t","m","_","s","o","u","r","c","e","=">>, text |-> <<"F">>, utm_params |-> [utm_source |-> ""]]}

UtmRequirements ==
    {EmptyDict,
     [required_params |-> <<"source">>],
     [required_params |-> <<"source">>, expected_values |-> << <<"source", "email">> >>],
     [expected_values |-> << <<"source", "email">> >>],
     [required_params |-> <<"source", "medium">>,
      expected_values |-> << <<"source", "email">>, <<"medium", "email">> >>]}

UtmInputs(n) ==
    {RunInput(Dict([ctas |-> <<>>, links |-> l]), Dict([utm_requirements |-> r]), FALSE) :
        l \in SeqsUpTo(UtmLinkPool, n), r \in UtmRequirements}

SocialLinkPool ==
    {[url |-> <<"h","t","t","p","s",":","/","/","I","n","s","t","a","g","r","a","m",".","c","o","m","/","a","c","m","e">>, text |-> <<"I","G">>],
     [url |-> <<"h","t","t","p","s",":","/","/","i","n","s","t","a","g","r","a","m",".","c","o","m","/","o","t","h","e","r","/">>, text |-> <<"@","a","c","m","e">>],
     [url |-> <<"h","t","t","p","s",":","/","/","i","n","s","t","a","g","r","a","m",".","c","o","m","/","p","r","o","f","i","l","e","/","r","i","v","a","l",";","x","?","y","=","1">>, text |-> <<"F","o","l","l","o","w">>],
     [url |-> <<"h","t","t","p","s",":","/","/","x",".","c","o","m","/","u","s","e","r","/","a","c","m","e","#","t","o","p">>, text |-> <<"X">>],
     [url |-> <<"h","t","t","p","s",":","/","/","i","n","s","t","a","g","r","a","m",".","c","o","m","/","a","c","m","e","_","f","a","n">>, text |-> <<"F","a","n">>]}

RequiredSocials ==
    {<< <<"instagram", <<"@","A","c","m","e">>>> >>,
     << <<"instagram", <<"@","A","c","m","e">>>>, <<"youtube", <<"a","c","m","e">>>> >>}

SocialInputs ==
    {RunInput(Dict([ctas |-> <<>>, links |-> l]), Dict([required_social |-> r]), FALSE) :
        l \in SeqsUpTo(SocialLinkPool, 1), r \in RequiredSocials}

HttpLinkPool ==
    {[url |-> <<"h","t","t","p","s",":","/","/","a",".","b">>, text |-> <<"A">>],
     [url |-> <<"m","a","i","l","t","o",":","a","@","b",".","c">>, text |-> <<"D">>]}

HttpInputs(n) ==
    {RunInput(Dict([ctas |-> <<>>, links |-> l]), Dict(EmptyDict), TRUE) :
        l \in SeqsUpTo(HttpLinkPool, n)}

\* arguments that are not JSON, or JSON arrays instead of objects
OtherInputs ==
    {RunInput(NotJson, Dict(EmptyDict), FALSE),
     RunInput(Dict(EmptyDict), NotJson, TRUE),
     RunInput(List(<<[url |-> <<"t","e","l",":","7","7","0","6","3","7","0","4","4","2">>, text |-> <<"b","u","y">>]>>), List(<<<<"B","U","Y">>>>), FALSE),
     RunInput(List(<<[url |-> <<"#">>]>>), List(<<>>), FALSE),
     RunInput(Dict(EmptyDict), Dict(EmptyDict), FALSE)}

LinkInputs(nc, nl) ==
    CtaInputs(nc) \cup PhoneInputs(nl) \cup UtmInputs(nl) \cup HttpInputs(nl)
    \cup SocialInputs \cup OtherInputs

(***************************************************************************)
(* Specifications                                                          *)
(***************************************************************************)
NoCall == [op |-> "init"]

\* a link-validator invocation whose arguments are drawn and not yet run
PendingRun(in) == [op |-> "pending", email_links |-> in.email_links,
                   required_links |-> in.required_links,
                   check_http_status |-> in.check_http_status]

\* the rule file of client z is never created
LiveKeys == ClientKeys \ {<<"z">>}

\* Engine with rule files that are uploaded and replaced while it runs, and
\* the link validator (a pure function) applied to each drawn input.
Init ==
    /\ NoObjects
    /\ loaded_rules = EmptyDict
    /\ result = Returned(EmptyDict)
    /\ \/ /\ call = NoCall
          /\ files \in {f \in [ClientKeys -> FileContents] :
                           \A k \in ClientKeys \ LiveKeys : f[k] = Absent}
       \/ /\ call \in {PendingRun(in) : in \in LinkInputs(MaxCtas, MaxLinks)}
          /\ files = [k \in ClientKeys |-> Absent]

Next ==
    \/ \E n \in ClientNames : LoadRules(n)
    \/ \E e \in {EmailGood, EmailBad, EmailWin}, n \in ClientNames, sg \in {None, "prospects"} :
          ValidateAgainstRules(e, n, sg, None)
    \/ \E n \in ClientNames, sg \in {None, "prospects"} : GetRequiredCtas(n, sg)
    \/ \E n \in ClientNames : GetUtmRequirements(n)
    \/ \E k \in LiveKeys, c \in WrittenContents : WriteRulesFile(k, c)
    \/ /\ call.op = "pending"
       /\ LinkValidatorRun(call.email_links, call.required_links, call.check_http_status)

Spec == Init /\ [][Next]_vars

\* The five checks of the engine: one validate_against_rules call on a fresh
\* engine for every rule document, email, segment and campaign.
CheckClient == <<"A"," ","b">>

PendingValidate(e, sg, cp) ==
    [op |-> "pending", email_data |-> e, client_name |-> CheckClient,
     segment |-> sg, campaign |-> cp]

InitChecks ==
    /\ NoObjects
    /\ \E d \in CheckDocs :
          files = [k \in ClientKeys |-> IF k = ClientKey(CheckClient) THEN Json(d) ELSE Absent]
    /\ loaded_rules = EmptyDict
    /\ call \in {PendingValidate(e, sg, cp) : e \in Emails, sg \in Segments, cp \in Campaigns}
    /\ result = Returned(EmptyDict)

NextChecks ==
    /\ call.op = "pending"
    /\ ValidateAgainstRules(call.email_data, call.client_name, call.segment, call.campaign)

SpecChecks == InitChecks /\ [][NextChecks]_vars


(***************************************************************************)
(* The document parser (automated_email_qa/tools/universal_parser.py).     *)
(* A character outside ASCII is the one-element text of its code point     *)
(* name, so that a mis-decoded sequence is the sequence of its characters. *)
(***************************************************************************)
\* a header, an attribute or a file name that is not there
Missing == <<None>>

ENCODING_FIXES ==
    << <<<<"U+00E2","U+20AC","U+2122">>, <<"'">>>>,
       <<<<"U+00E2","U+20AC","\"">>, <<"-">>>>,
       <<<<"U+00E2","U+20AC","U+0153">>, <<"\"">>>>,
       <<<<"U+00E2","U+20AC">>, <<"\"">>>>,
       <<<<"U+00E2","U+20AC","U+00A6">>, <<".",".",".">>>>,
       <<<<"U+00E2","U+20AC","U+00A2">>, <<"U+2022">>>>,
       <<<<"U+00E2","U+20AC","U+02DC">>, <<"'">>>>,
       <<<<"U+00C3","U+00A9">>, <<"U+00E9">>>>,
       <<<<"U+00C3","U+00A8">>, <<"U+00E8">>>>,
       <<<<"U+00C3"," ">>, <<"U+00E0">>>>,
       <<<<"&","n","b","s","p",";">>, <<" ">>>>,
       <<<<"&","a","m","p",";">>, <<"&">>>>,
       <<<<"&","l","t",";">>, <<"<">>>>,
       <<<<"&","g","t",";">>, <<">">>>>,
       <<<<"&","#","3","9",";">>, <<"'">>>>,
       <<<<"&","q","u","o","t",";">>, <<"\"">>>> >>

\* the loop of _fix_encoding: the table's entries in order, each replaced
\* once where it occurs in the text as the earlier entries left it
RECURSIVE FixLoop(_, _, _)
FixLoop(text, found, i) ==
    IF i > Len(ENCODING_FIXES) THEN [text |-> text, encoding_issues_found |-> found]
    ELSE LET broken == ENCODING_FIXES[i][1]
             fixed == ENCODING_FIXES[i][2]
         IN  IF Contains(broken, text)
             THEN FixLoop(Replace(text, broken, fixed),
                          Append(found, <<"Fixed", broken, fixed>>), i + 1)
             ELSE FixLoop(text, found, i + 1)

_fix_encoding(text) == FixLoop(text, <<>>, 1).text

\* _fix_encoding called on a parser whose issue list is empty
FixEncoding(text) ==
    /\ call' = [op |-> "_fix_encoding", text |-> text]
    /\ result' = Returned(FixLoop(text, <<>>, 1))
    /\ UNCHANGED <<files, loaded_rules, heap, instance>>

\* Python's sep.join(parts) and s.split(sep) for a one-character sep
RECURSIVE Join(_, _)
Join(parts, sep) ==
    IF Len(parts) = 0 THEN <<>>
    ELSE IF Len(parts) = 1 THEN parts[1]
    ELSE parts[1] \o sep \o Join(Tail(parts), sep)

RECURSIVE Split(_, _)
Split(s, sep) ==
    LET i == FirstIndex(s, {sep})
    IN  IF i = 0 THEN <<s>>
        ELSE <<SubSeq(s, 1, i - 1)>> \o Split(SubSeq(s, i + 1, Len(s)), sep)

\* line.split(':', 1)[1].strip() of a line that holds a colon
AfterColon(line) ==
    Strip(SubSeq(line, FirstIndex(line, {":"}) + 1, Len(line)), Whitespace)

AnyIn(patterns, text) == \E q \in patterns : Contains(q, text)

\* len(s.split())
WordCount(s) ==
    Cardinality({i \in 1..Len(s) :
                    s[i] \notin Whitespace /\ (i = 1 \/ s[i - 1] \in Whitespace)})

\* the length of https?:// where it matches at position i, 0 where it does not
SchemeAt(s, i) ==
    IF StartsWith(SubSeq(s, i, Len(s)), <<"h","t","t","p",":","/","/">>) THEN 7
    ELSE IF StartsWith(SubSeq(s, i, Len(s)), <<"h","t","t","p","s",":","/","/">>) THEN 8
    ELSE 0

\* the last position of the longest run from j of characters outside stop
RECURSIVE RunEnd(_, _, _)
RunEnd(s, j, stop) ==
    IF j <= Len(s) /\ s[j] \notin stop THEN RunEnd(s, j + 1, stop) ELSE j - 1

\* re.findall(r'https?://[^stop]+', s) from position i on
RECURSIVE FindUrls(_, _, _)
FindUrls(s, i, stop) ==
    IF i > Len(s) THEN <<>>
    ELSE LET n == SchemeAt(s, i)
             last == RunEnd(s, i + n, stop)
         IN  IF n > 0 /\ last >= i + n
             THEN <<SubSeq(s, i, last)>> \o FindUrls(s, last + 1, stop)
             ELSE FindUrls(s, i + 1, stop)

\* re.search(r'https?://[^\s]+', line): the first match, '' without one
NextUrl(line) ==
    LET found == FindUrls(line, 1, Whitespace)
    IN  IF found = <<>> THEN <<>> ELSE found[1]

\* re.match(r'^[A-Z][A-Z\s]+[A-Z]$', line)
IsUpperLine(line) ==
    /\ Len(line) >= 3
    /\ IsUpperChar(line[1])
    /\ IsUpperChar(line[Len(line)])
    /\ \A i \in 2..(Len(line) - 1) : IsUpperChar(line[i]) \/ line[i] \in Whitespace

\* re.search(r'from:\s*(.+?)\s*<(.+?)>', line, re.IGNORECASE): the two
\* groups, stripped; <<>> without a match
FromMatch(line) ==
    LET lower == Lower(line)
        starts == {i \in 1..Len(line) : StartsWith(SubSeq(lower, i, Len(line)), <<"f","r","o","m",":">>)}
    IN  IF starts = {} THEN <<>>
        ELSE LET a == (CHOOSE i \in starts : \A j \in starts : i <= j) + 5
                 rest == SubSeq(line, a, Len(line))
                 opens == {k \in 2..Len(rest) : rest[k] = "<"}
             IN  IF opens = {} THEN <<>>
                 ELSE LET k == CHOOSE x \in opens : \A y \in opens : x <= y
                          closes == {m \in (k + 2)..Len(rest) : rest[m] = ">"}
                      IN  IF closes = {} THEN <<>>
                          ELSE LET m == CHOOSE x \in closes : \A y \in closes : x <= y
                               IN  <<Strip(SubSeq(rest, 1, k - 1), Whitespace),
                                     Strip(SubSeq(rest, k + 1, m - 1), Whitespace)>>

\* 3 <= len(potential_cta) <= 30 and len(potential_cta.split()) <= 5, with
\* the upper limit one higher
IsCtaSizeUpTo31(potential_cta) ==
    /\ 3 <= Len(potential_cta) /\ Len(potential_cta) <= 31
    /\ WordCount(potential_cta) <= 5

\* 3 <= len(potential_cta) <= 30 and len(potential_cta.split()) <= 5
IsCtaSize(potential_cta) ==
    /\ 3 <= Len(potential_cta) /\ Len(potential_cta) <= 30
    /\ WordCount(potential_cta) <= 5

AppendNew(list, x) == IF x \in SeqToSet(list) THEN list ELSE Append(list, x)

\* the if/elif chain of one line (universal_parser.py lines 391-440): the
\* requirements and the current segment after it
FieldStep(st, lines, i, line, line_stripped, line_lower) ==
    LET req == st.requirements
        colon == Contains(<<":">>, line)
    IN  IF AnyIn({<<"s","u","b","j","e","c","t",":">>, <<"s","u","b","j","e","c","t"," ","l","i","n","e",":">>, <<"s","l",":">>}, line_lower)
        THEN IF colon /\ AfterColon(line) # <<>>
             THEN [st EXCEPT !.requirements.subject_lines = AppendNew(@, AfterColon(line))]
             ELSE st
        ELSE IF AnyIn({<<"p","r","e","v","i","e","w",":">>, <<"p","r","e","h","e","a","d","e","r",":">>, <<"p","r","e","v","i","e","w"," ","t","e","x","t",":">>}, line_lower)
        THEN IF colon THEN [st EXCEPT !.requirements.preview_text = AfterColon(line)] ELSE st
        ELSE IF Contains(<<"f","r","o","m"," ","n","a","m","e",":">>, line_lower) /\ colon
        THEN [st EXCEPT !.requirements.from_name = AfterColon(line)]
        ELSE IF Contains(<<"f","r","o","m"," ","e","m","a","i","l",":">>, line_lower) /\ colon
        THEN [st EXCEPT !.requirements.from_email = AfterColon(line)]
        ELSE IF Contains(<<"f","r","o","m",":">>, line_lower) /\ Contains(<<"@">>, line)
        THEN IF FromMatch(line) # <<>>
             THEN [st EXCEPT !.requirements.from_name = FromMatch(line)[1],
                             !.requirements.from_email = FromMatch(line)[2]]
             ELSE st
        ELSE IF Contains(<<"s","e","g","m","e","n","t",":">>, line_lower) /\ colon
        THEN [requirements |->
                 [req EXCEPT !.segments =
                     (AfterColon(line) :> [requirements |-> <<>>, line_number |-> i]) @@ @],
              current_segment |-> AfterColon(line)]
        ELSE IF IsUpperLine(line_stripped) /\ IsCtaSize(line_stripped)
        THEN [st EXCEPT !.requirements.ctas =
                 Append(@, [text |-> line_stripped,
                            link |-> IF i + 1 <= Len(lines) THEN NextUrl(lines[i + 1]) ELSE <<>>,
                            line_number |-> i])]
        ELSE st

\* the URLs of the line, trailing punctuation removed, each added once
RECURSIVE AddLinks(_, _)
AddLinks(links, urls) ==
    IF urls = <<>> THEN links
    ELSE AddLinks(AppendNew(links, RStrip(urls[1], {".", ",", ";", ":", ")"})), Tail(urls))

\* the unconditional part of one line (universal_parser.py lines 442-464)
LineTail(st, line, line_stripped, line_lower) ==
    LET cur == st.current_segment
        isModule == AnyIn({<<"m","o","d","u","l","e",":">>, <<"s","e","c","t","i","o","n",":">>}, line_lower) /\ Contains(<<":">>, line)
        isSegmentLine == cur # Missing /\ cur # <<>> /\ line_stripped # <<>>
                            /\ ~Contains(<<":">>, line_stripped)
        isNote == \E marker \in {<<"N","O","T","E",":">>, <<"I","M","P","O","R","T","A","N","T",":">>, <<"A","T","T","E","N","T","I","O","N",":">>} : StartsWith(Upper(line_stripped), marker)
    IN  [st EXCEPT
            !.requirements.links = AddLinks(@, FindUrls(line, 1, Whitespace \cup {"<", ">", "\""})),
            !.requirements.content_modules =
                IF isModule THEN AppendNew(@, AfterColon(line)) ELSE @,
            !.requirements.segments =
                IF isSegmentLine
                THEN [@ EXCEPT ![cur].requirements = Append(@, line_stripped)]
                ELSE @,
            !.requirements.special_notes = IF isNote THEN Append(@, line_stripped) ELSE @]

LineStep(st, lines, i) ==
    LET line_stripped == Strip(lines[i], Whitespace)
    IN  LineTail(FieldStep(st, lines, i, lines[i], line_stripped, Lower(line_stripped)),
                 lines[i], line_stripped, Lower(line_stripped))

RECURSIVE LineLoop(_, _, _)
LineLoop(st, lines, i) ==
    IF i > Len(lines) THEN st ELSE LineLoop(LineStep(st, lines, i), lines, i + 1)

\* the requirements before the first line, for a parser with the given
\* encoding issue list
NoRequirements(encoding_issues_found) ==
    [subject_lines |-> <<>>, preview_text |-> <<>>, from_name |-> <<>>,
     from_email |-> <<>>, ctas |-> <<>>, links |-> <<>>, segments |-> EmptyDict,
     content_modules |-> <<>>, special_notes |-> <<>>,
     encoding_fixed |-> Len(encoding_issues_found) > 0,
     encoding_issues |-> encoding_issues_found]

_parse_text_requirements(content, encoding_issues_found) ==
    LineLoop([requirements |-> NoRequirements(encoding_issues_found),
              current_segment |-> Missing],
             Split(content, "\n"), 1).requirements

(***************************************************************************)
(* Markup and messages.  An HTML document is the sequence of its elements  *)
(* in document order as BeautifulSoup presents them: each element has its  *)
(* tag, its text, its attributes (href is Missing on an element without),   *)
(* and the tag and classes of its parent.  A message is its Subject and    *)
(* From headers (Missing when absent) and the sequence of its parts, each  *)
(* a content type and a payload: text for text/plain, the elements of a    *)
(* document for text/html, both empty for an empty payload.                *)
(***************************************************************************)
\* an element
Element(tag, text, href, class, style, role, parent_tag, parent_class) ==
    [tag |-> tag, text |-> text, href |-> href, class |-> class, style |-> style,
     role |-> role, parent_tag |-> parent_tag, parent_class |-> parent_class]

\* soup.find_all('a', href=True)
Anchors(elements) ==
    SelectSeq(elements, LAMBDA e : e.tag = "a" /\ e.href # Missing)

\* element.get_text(strip=True) of an element with one string
StrippedText(e) == Strip(e.text, Whitespace)

\* soup.get_text(separator='\n', strip=True)
GetText(elements) ==
    Join(SelectSeq([i \in 1..Len(elements) |-> StrippedText(elements[i])],
                   LAMBDA t : t # <<>>),
         <<"\n">>)

\* ' '.join(classes)
ClassText(classes) == Join(classes, <<" ">>)

\* Python's s.isupper(): a cased character, and no lowercase one
IsUpper(str) ==
    /\ \E i \in 1..Len(str) : IsUpperChar(str[i])
    /\ \A i \in 1..Len(str) : ~IsLowerChar(str[i])

\* re.match(r'(.+?)\s*<(.+?)>', s): the two groups, stripped; <<>> without
\* a match
AngleMatch(str) ==
    LET opens == {k \in 2..Len(str) : str[k] = "<"}
    IN  IF opens = {} THEN <<>>
        ELSE LET k == CHOOSE x \in opens : \A y \in opens : x <= y
                 closes == {m \in (k + 2)..Len(str) : str[m] = ">"}
             IN  IF closes = {} THEN <<>>
                 ELSE LET m == CHOOSE x \in closes : \A y \in closes : x <= y
                      IN  <<Strip(SubSeq(str, 1, k - 1), Whitespace),
                            Strip(SubSeq(str, k + 1, m - 1), Whitespace)>>

\* one anchor of _parse_html_requirements (universal_parser.py lines 488-507)
AnchorStep(requirements, link) ==
    LET link_text == StrippedText(link)
        parent_classes == ClassText(link.parent_class)
        is_cta == AnyIn({<<"b","u","t","t","o","n">>, <<"c","t","a">>, <<"b","t","n">>}, Lower(parent_classes))
        cta_exists == \E i \in 1..Len(requirements.ctas) :
                         requirements.ctas[i].text = link_text
    IN  IF /\ link_text # <<>> /\ link.href # <<>>
           /\ (is_cta \/ IsUpper(link_text))
           /\ ~cta_exists
        THEN [requirements EXCEPT !.ctas =
                 Append(@, [text |-> link_text, link |-> link.href,
                            html_class |-> parent_classes])]
        ELSE requirements

RECURSIVE AnchorLoop(_, _, _)
AnchorLoop(requirements, links, i) ==
    IF i > Len(links) THEN requirements
    ELSE AnchorLoop(AnchorStep(requirements, links[i]), links, i + 1)

\* soup.find('title') with text, as the special note it produces
TitleNote(requirements, elements) ==
    LET titles == SelectSeq(elements, LAMBDA e : e.tag = "title")
    IN  IF titles # <<>> /\ StrippedText(titles[1]) # <<>>
        THEN [requirements EXCEPT !.special_notes =
                 Append(@, <<"Page title", StrippedText(titles[1])>>)]
        ELSE requirements

_parse_html_requirements(elements, encoding_issues_found) ==
    TitleNote(AnchorLoop(_parse_text_requirements(GetText(elements), encoding_issues_found),
                         Anchors(elements), 1),
              elements)

\* one part of msg.walk() in _parse_eml_format (universal_parser.py 541-560)
PartStep(requirements, part, encoding_issues_found) ==
    IF part.content_type = "text/html" /\ part.elements # <<>>
    THEN LET html_requirements == _parse_html_requirements(part.elements, encoding_issues_found)
         IN  [requirements EXCEPT !.ctas = @ \o html_requirements.ctas,
                                  !.links = @ \o html_requirements.links]
    ELSE IF part.content_type = "text/plain" /\ part.text # <<>>
    THEN LET text_requirements == _parse_text_requirements(part.text, encoding_issues_found)
         IN  [requirements EXCEPT
                 !.content_modules = @ \o text_requirements.content_modules,
                 !.special_notes = @ \o text_requirements.special_notes]
    ELSE requirements

RECURSIVE PartLoop(_, _, _, _)
PartLoop(requirements, parts, i, encoding_issues_found) ==
    IF i > Len(parts) THEN requirements
    ELSE PartLoop(PartStep(requirements, parts[i], encoding_issues_found),
                  parts, i + 1, encoding_issues_found)

\* the headers of the message (universal_parser.py lines 526-538)
EmlHeaders(requirements, msg) ==
    LET from_header == IF msg.from = Missing THEN <<>> ELSE msg.from
        from_match == AngleMatch(from_header)
    IN  [requirements EXCEPT
            !.subject_lines = << IF msg.subject = Missing THEN <<>> ELSE msg.subject >>,
            !.from_name = IF from_match # <<>> THEN from_match[1] ELSE @,
            !.from_email = IF from_header = <<>> THEN @
                           ELSE IF from_match # <<>> THEN from_match[2]
                           ELSE Strip(from_header, Whitespace)]

\* every order of the distinct members of a list: list(set(links))
Orders(list) ==
    {o \in [1..Cardinality(SeqToSet(list)) -> SeqToSet(list)] :
        \A i, j \in DOMAIN o : i # j => o[i] # o[j]}

\* _parse_eml_format before its final list(set(...)) of the links
EmlMerged(msg, encoding_issues_found) ==
    PartLoop(EmlHeaders(_parse_text_requirements(<<>>, encoding_issues_found), msg),
             msg.parts, 1, encoding_issues_found)

\* the documents a binary handler reads: the stripped non-empty paragraphs
\* joined by newlines (universal_parser.py lines 181-203)
FullText(paragraphs) ==
    Join(SelectSeq([i \in 1..Len(paragraphs) |-> Strip(paragraphs[i], Whitespace)],
                   LAMBDA t : t # <<>>),
         <<"\n">>)

\* _parse_docx_binary: the requirements of the text of the document; of
\* content that is not the bytes of a document, the fixed result of the
\* except branch with the error in its note
_parse_docx_binary(content) ==
    IF content.kind = "docx"
    THEN _parse_text_requirements(FullText(content.paragraphs), <<>>)
    ELSE [NoRequirements(<<>>) EXCEPT
             !.special_notes = <<<<"DOCX parsing failed", "TypeError">>>>]

\* Path(filename).suffix.lower() of the file names used
Suffix(filename) ==
    IF filename = Missing \/ LastIndex(filename, {"."}) <= 1 THEN <<>>
    ELSE Lower(SubSeq(filename, LastIndex(filename, {"."}), Len(filename)))

\* content[:n]
Prefix(str, n) == SubSeq(str, 1, IF Len(str) < n THEN Len(str) ELSE n)

\* _is_html and _is_eml on the characters of the content.  Markup is a
\* complete HTML document, so that its first characters hold <html; of a
\* message they hold the markup of an HTML part.  The header tokens are
\* looked for in the text of markup, which is where they can occur, and a
\* message has its headers at its start.
_is_html(content) ==
    IF content.kind = "text"
    THEN AnyIn({<<"<","h","t","m","l">>, <<"<","b","o","d","y">>, <<"<","d","i","v">>, <<"<","t","a","b","l","e">>, <<"<","!","D","O","C","T","Y","P","E">>}, Lower(Prefix(content.text, 1000)))
    ELSE IF content.kind = "html" THEN TRUE
    ELSE \E i \in 1..Len(content.parts) :
            content.parts[i].content_type = "text/html" /\ content.parts[i].elements # <<>>

eml_headers ==
    {<<"S","u","b","j","e","c","t",":">>, <<"F","r","o","m",":">>, <<"T","o",":">>, <<"D","a","t","e",":">>, <<"C","o","n","t","e","n","t","-","T","y","p","e",":">>, <<"M","I","M","E","-","V","e","r","s","i","o","n",":">>}

_is_eml(content) ==
    IF content.kind = "text"
    THEN Cardinality({h \in eml_headers : Contains(h, Prefix(content.text, 500))}) >= 2
    ELSE IF content.kind = "html"
    THEN Cardinality({h \in eml_headers :
                         Contains(h, Prefix(GetText(content.elements), 500))}) >= 2
    ELSE content.kind = "eml"

\* the format path parse_document takes (universal_parser.py lines 121-173)
FormatPath(content, filename) ==
    IF content.kind = "docx" /\ Suffix(filename) = <<".","d","o","c","x">> THEN "docx"
    ELSE IF Suffix(filename) = <<".","e","m","l">> THEN "eml"
    ELSE IF Suffix(filename) = <<".","h","t","m","l">> THEN "html"
    ELSE IF _is_html(content) THEN "html"
    ELSE IF _is_eml(content) THEN "eml"
    ELSE "text"

\* _fix_encoding on the text of the content
FixElement(e) ==
    [e EXCEPT !.text = _fix_encoding(@),
              !.href = IF @ = Missing THEN Missing ELSE _fix_encoding(@)]

FixElements(elements) == [i \in 1..Len(elements) |-> FixElement(elements[i])]

FixPart(part) ==
    [part EXCEPT !.elements = FixElements(@), !.text = _fix_encoding(@)]

FixContent(content) ==
    IF content.kind = "text" THEN [content EXCEPT !.text = _fix_encoding(@)]
    ELSE IF content.kind = "html" THEN [content EXCEPT !.elements = FixElements(@)]
    ELSE [content EXCEPT
             !.subject = IF @ = Missing THEN Missing ELSE _fix_encoding(@),
             !.from = IF @ = Missing THEN Missing ELSE _fix_encoding(@),
             !.parts = [i \in 1..Len(@) |-> FixPart(@[i])]]

\* the text in which _fix_encoding looks for the keys of its table
ElementsText(elements) ==
    Join([i \in 1..Len(elements) |->
             elements[i].text \o <<"\n">>
                \o (IF elements[i].href = Missing THEN <<>> ELSE elements[i].href)],
         <<"\n">>)

PartText(part) ==
    IF part.content_type = "text/html" THEN ElementsText(part.elements) ELSE part.text

ContentText(content) ==
    IF content.kind = "text" THEN content.text
    ELSE IF content.kind = "html" THEN ElementsText(content.elements)
    ELSE Join(<< IF content.subject = Missing THEN <<>> ELSE content.subject,
                 IF content.from = Missing THEN <<>> ELSE content.from >>
              \o [i \in 1..Len(content.parts) |-> PartText(content.parts[i])],
              <<"\n">>)

\* the values parse_document can return for a document within the size
\* limit: one, or one for each order list(set(...)) can give the links of a
\* message
parse_document(content, filename) ==
    LET path == FormatPath(content, filename)
        found == IF path = "docx" THEN <<>>
                 ELSE FixLoop(ContentText(content), <<>>, 1).encoding_issues_found
    IN  IF path = "docx" THEN {_parse_docx_binary(content)}
        ELSE IF path = "text" /\ content.kind = "text"
        THEN {_parse_text_requirements(FixContent(content).text, found)}
        ELSE IF path = "html" /\ content.kind = "html"
        THEN {_parse_html_requirements(FixContent(content).elements, found)}
        ELSE IF path = "eml" /\ content.kind = "eml"
        THEN {[EmlMerged(FixContent(content), found) EXCEPT !.links = links] :
                 links \in Orders(EmlMerged(FixContent(content), found).links)}
        ELSE {}

\* parse_document on a parser whose result is not kept by reference
ParseDocument(content, filename) ==
    /\ call' = [op |-> "parse_document", content |-> content, filename |-> filename]
    /\ \E requirements \in parse_document(content, filename) :
          result' = Returned(requirements)
    /\ UNCHANGED <<files, loaded_rules, heap, instance>>

(***************************************************************************)
(* The email parser (automated_email_qa/tools/email_parser.py).  The       *)
(* components keep the headers, the bodies, the preview text, the links,   *)
(* the CTAs and the unsubscribe link; each link and CTA entry keeps its    *)
(* text and url.                                                           *)
(***************************************************************************)
CTA_INDICATORS == {<<"b","u","t","t","o","n">>, <<"b","t","n">>, <<"c","t","a">>, <<"c","a","l","l","-","t","o","-","a","c","t","i","o","n">>, <<"a","c","t","i","o","n">>, <<"p","r","i","m","a","r","y">>, <<"s","e","c","o","n","d","a","r","y">>}

\* _is_cta (email_parser.py lines 371-405)
_is_cta(link) ==
    \/ AnyIn(CTA_INDICATORS, Lower(ClassText(link.parent_class)))
    \/ AnyIn(CTA_INDICATORS, Lower(ClassText(link.class)))
    \/ /\ StrippedText(link) # <<>>
       /\ IsUpper(StrippedText(link))
       /\ WordCount(StrippedText(link)) <= 4
    \/ link.role = <<"b","u","t","t","o","n">>
    \/ AnyIn({<<"b","a","c","k","g","r","o","u","n","d","-","c","o","l","o","r">>, <<"p","a","d","d","i","n","g">>, <<"b","o","r","d","e","r","-","r","a","d","i","u","s">>}, Lower(link.style))

unsubscribe_indicators == {<<"u","n","s","u","b","s","c","r","i","b","e">>, <<"o","p","t","-","o","u","t">>, <<"o","p","t"," ","o","u","t">>, <<"r","e","m","o","v","e">>, <<"p","r","e","f","e","r","e","n","c","e","s">>, <<"m","a","n","a","g","e"," ","s","u","b","s","c","r","i","p","t","i","o","n">>, <<"e","m","a","i","l"," ","p","r","e","f","e","r","e","n","c","e","s">>}

_is_unsubscribe_link(link) ==
    \E indicator \in unsubscribe_indicators :
        \/ Contains(indicator, Lower(StrippedText(link)))
        \/ Contains(indicator, Lower(link.href))

\* the hidden div and span elements whose text is the preview text
preview_elements(elements) ==
    SelectSeq(elements,
              LAMBDA e : /\ e.tag \in {"div", "span"}
                         /\ AnyIn({<<"d","i","s","p","l","a","y",":","n","o","n","e">>, <<"d","i","s","p","l","a","y",":"," ","n","o","n","e">>, <<"h","i","d","d","e","n">>, <<"v","i","s","i","b","i","l","i","t","y",":","h","i","d","d","e","n">>}, Lower(e.style)))

\* one anchor of _parse_html_content (email_parser.py lines 267-290)
LinkStep(components, link) ==
    [components EXCEPT
        !.ctas = IF _is_cta(link)
                 THEN Append(@, [text |-> StrippedText(link), url |-> link.href])
                 ELSE @,
        !.unsubscribe_link = IF _is_unsubscribe_link(link) THEN link.href ELSE @,
        !.has_unsubscribe = IF _is_unsubscribe_link(link) THEN TRUE ELSE @]

RECURSIVE LinkLoop(_, _, _)
LinkLoop(components, all_links, i) ==
    IF i > Len(all_links) THEN components
    ELSE LinkLoop(LinkStep(components, all_links[i]), all_links, i + 1)

\* the preview text and the links list that _parse_html_content assigns
HtmlAssigned(components, elements) ==
    [components EXCEPT
        !.preview_text = IF preview_elements(elements) # <<>>
                         THEN StrippedText(preview_elements(elements)[1])
                         ELSE @,
        !.links = [i \in 1..Len(Anchors(elements)) |->
                      [text |-> StrippedText(Anchors(elements)[i]),
                       url |-> Anchors(elements)[i].href,
                       is_cta |-> FALSE]]]

_parse_html_content(elements, components) ==
    HtmlAssigned(LinkLoop(components, Anchors(elements), 1), elements)

\* one part of msg.walk() (email_parser.py lines 213-228)
BodyStep(components, part) ==
    IF part.content_type = "text/html" /\ part.elements # <<>>
    THEN _parse_html_content(part.elements, [components EXCEPT !.html_body = part.elements])
    ELSE IF part.content_type = "text/plain" /\ part.text # <<>>
    THEN [components EXCEPT !.plain_body = part.text]
    ELSE components

RECURSIVE BodyLoop(_, _, _)
BodyLoop(components, parts, i) ==
    IF i > Len(parts) THEN components
    ELSE BodyLoop(BodyStep(components, parts[i]), parts, i + 1)

\* the headers of the message (email_parser.py lines 198-207)
MessageHeaders(components, msg) ==
    LET from_header == IF msg.from = Missing THEN <<>> ELSE msg.from
        from_match == AngleMatch(from_header)
    IN  [components EXCEPT
            !.subject = IF msg.subject = Missing THEN <<>> ELSE msg.subject,
            !.from = IF from_match # <<>> THEN from_match[2] ELSE from_header,
            !.from_name = IF from_match # <<>> THEN Strip(from_match[1], {"\""}) ELSE @]

_parse_eml_format(msg, components) ==
    BodyLoop(MessageHeaders(components, msg), msg.parts, 1)

\* the repair of one value of a list entry: every key of the table that
\* occurs in the value as it was replaces the entry's value by the value
\* as it was with that key repaired
RECURSIVE ItemFix(_, _, _)
ItemFix(item_value, fixed_value, i) ==
    IF i > Len(ENCODING_FIXES) THEN fixed_value
    ELSE ItemFix(item_value,
                 IF Contains(ENCODING_FIXES[i][1], item_value)
                 THEN Replace(item_value, ENCODING_FIXES[i][1], ENCODING_FIXES[i][2])
                 ELSE fixed_value,
                 i + 1)

FixItems(items) ==
    [i \in 1..Len(items) |->
        [items[i] EXCEPT !.text = ItemFix(@, @, 1), !.url = ItemFix(@, @, 1)]]

_fix_encoding_in_components(components) ==
    [components EXCEPT
        !.subject = _fix_encoding(@), !.from = _fix_encoding(@),
        !.from_name = _fix_encoding(@), !.preview_text = _fix_encoding(@),
        !.html_body = FixElements(@), !.plain_body = _fix_encoding(@),
        !.unsubscribe_link = _fix_encoding(@),
        !.links = FixItems(@), !.ctas = FixItems(@)]

NoComponents ==
    [subject |-> <<>>, from |-> <<>>, from_name |-> <<>>, preview_text |-> <<>>,
     html_body |-> <<>>, plain_body |-> <<>>, links |-> <<>>, ctas |-> <<>>,
     unsubscribe_link |-> <<>>, has_unsubscribe |-> FALSE]

\* parse_email of a message (content that _is_eml_format recognizes) or of
\* an HTML document (any other content)
ParseEmail(content) ==
    /\ call' = [op |-> "parse_email", content |-> content]
    /\ \/ /\ content.kind = "eml"
          /\ result' = Returned(_fix_encoding_in_components(
                                   _parse_eml_format(content, NoComponents)))
       \/ /\ content.kind = "html"
          /\ result' = Returned(_fix_encoding_in_components(
                                   _parse_html_content(content.elements,
                                       [NoComponents EXCEPT !.html_body = content.elements])))
    /\ UNCHANGED <<files, loaded_rules, heap, instance>>

(***************************************************************************)
(* The email parser tool (email_qa/tools/email_parser.py)                  *)
(***************************************************************************)
\* re.search of a label, whitespace and a value, case-insensitively
LabelValue(label, value, str) ==
    \E i \in 1..Len(str) :
        /\ StartsWith(SubSeq(Lower(str), i, Len(str)), label)
        /\ StartsWith(SubSeq(Lower(str), RunEnd(str, i + Len(label), {c \in SeqToSet(str) : c \notin Whitespace}) + 1, Len(str)), value)

\* the four patterns of _extract_preview_text, in their order
PreviewPattern(n, e) ==
    CASE n = 1 -> LabelValue(<<"d","i","s","p","l","a","y",":">>, <<"n","o","n","e">>, e.style)
      [] n = 2 -> LabelValue(<<"f","o","n","t","-","s","i","z","e",":">>, <<"0">>, e.style)
      [] n = 3 -> LabelValue(<<"v","i","s","i","b","i","l","i","t","y",":">>, <<"h","i","d","d","e","n">>, e.style)
      [] n = 4 -> \/ AnyIn({<<"p","r","e","h","e","a","d","e","r">>, <<"p","r","e","v","i","e","w">>}, Lower(ClassText(e.class)))

\* the elements found by the patterns, pattern by pattern
PreviewCandidates(elements) ==
    Flatten([n \in 1..4 |-> SelectSeq(elements, LAMBDA e : PreviewPattern(n, e))])

_extract_preview_text(elements) ==
    LET long == SelectSeq(PreviewCandidates(elements),
                          LAMBDA e : Len(StrippedText(e)) > 10)
    IN  IF long = <<>> THEN <<>> ELSE StrippedText(long[1])

tracking_domains == {<<"c","l","i","c","k",".","e",".">>, <<"l","i","n","k",".">>, <<"t","r","a","c","k",".">>, <<"r","e","d","i","r","e","c","t",".">>, <<"r",".">>, <<"g","o",".">>, <<"l","i","n","k","s",".">>, <<"c","l","i","c","k","s",".">>}

_extract_links(elements) ==
    [i \in 1..Len(Anchors(elements)) |->
        [url |-> Anchors(elements)[i].href,
         text |-> StrippedText(Anchors(elements)[i]),
         is_tracking_link |-> AnyIn(tracking_domains, Lower(Anchors(elements)[i].href))]]

cta_keywords == <<<<"b","u","t","t","o","n">>, <<"b","t","n">>, <<"c","t","a">>, <<"c","a","l","l","-","t","o","-","a","c","t","i","o","n">>, <<"s","h","o","p">>, <<"b","u","y">>, <<"g","e","t">>, <<"s","t","a","r","t">>, <<"l","e","a","r","n">>, <<"e","x","p","l","o","r","e">>>>

IsCtaTag(a_tag) ==
    \/ \E k \in 1..4 : Contains(cta_keywords[k], Lower(ClassText(a_tag.class)))
    \/ /\ a_tag.parent_tag \in {"td", "th"}
       /\ \E k \in 1..4 : Contains(cta_keywords[k], Lower(ClassText(a_tag.parent_class)))
    \/ \E k \in 5..Len(cta_keywords) : Contains(cta_keywords[k], Lower(StrippedText(a_tag)))

_identify_ctas(elements) ==
    LET tags == SelectSeq(Anchors(elements), IsCtaTag)
    IN  [i \in 1..Len(tags) |->
            [text |-> StrippedText(tags[i]), url |-> tags[i].href,
             style |-> tags[i].style, classes |-> ClassText(tags[i].class)]]

_has_unsubscribe_link(links) ==
    \E i \in 1..Len(links) :
        \E keyword \in {<<"u","n","s","u","b","s","c","r","i","b","e">>, <<"o","p","t","-","o","u","t">>, <<"o","p","t"," ","o","u","t">>, <<"r","e","m","o","v","e">>} :
            Contains(keyword, Lower(links[i].text)) \/ Contains(keyword, Lower(links[i].url))

\* _parse_html_content of the tool (email_parser.py lines 183-217)
ToolHtmlContent(elements) ==
    [preview_text |-> _extract_preview_text(elements),
     links |-> _extract_links(elements),
     ctas |-> _identify_ctas(elements),
     has_unsubscribe |-> _has_unsubscribe_link(_extract_links(elements))]

NoHtmlContent ==
    [preview_text |-> <<>>, links |-> <<>>, ctas |-> <<>>, has_unsubscribe |-> FALSE]

_parse_from_header(from_header) ==
    IF AngleMatch(from_header) # <<>>
    THEN <<Strip(AngleMatch(from_header)[1], {"\""}), AngleMatch(from_header)[2]>>
    ELSE << <<>>, Strip(from_header, Whitespace) >>

\* the last text/html part and the first text/plain part of the message
LastHtmlBody(msg) ==
    LET htmls == SelectSeq(msg.parts, LAMBDA q : q.content_type = "text/html")
    IN  IF htmls = <<>> THEN <<>> ELSE htmls[Len(htmls)].elements

FirstPlainBody(msg) ==
    LET plains == SelectSeq(msg.parts, LAMBDA q : q.content_type = "text/plain")
    IN  IF plains = <<>> THEN <<>> ELSE plains[1].text

\* the components _parse_eml_file returns for the message stored in the
\* file; a plain-text body parsed as markup is one paragraph
EmlFileResult(msg, parsed_html) ==
    [subject |-> IF msg.subject = Missing THEN <<>> ELSE msg.subject,
     from_name |-> _parse_from_header(IF msg.from = Missing THEN <<>> ELSE msg.from)[1],
     from_email |-> _parse_from_header(IF msg.from = Missing THEN <<>> ELSE msg.from)[2],
     preview_text |-> parsed_html.preview_text,
     html_body |-> LastHtmlBody(msg),
     plain_body |-> FirstPlainBody(msg),
     links |-> parsed_html.links,
     ctas |-> parsed_html.ctas,
     has_unsubscribe |-> parsed_html.has_unsubscribe]

ParseEmlFile(msg) ==
    /\ call' = [op |-> "_parse_eml_file", content |-> msg]
    /\ result' = Returned(EmlFileResult(msg,
                    IF LastHtmlBody(msg) # <<>> THEN ToolHtmlContent(LastHtmlBody(msg))
                    ELSE IF FirstPlainBody(msg) # <<>>
                    THEN ToolHtmlContent(<<Element("p", FirstPlainBody(msg), Missing, <<>>, <<>>,
                                                   Missing, "body", <<>>)>>)
                    ELSE NoHtmlContent))
    /\ UNCHANGED <<files, loaded_rules, heap, instance>>

ParseHtmlFile(doc) ==
    /\ call' = [op |-> "_parse_html_file", content |-> doc]
    /\ result' = Returned(
          [subject |-> <<>>, from_name |-> <<>>, from_email |-> <<>>,
           preview_text |-> ToolHtmlContent(doc.elements).preview_text,
           html_body |-> doc.elements,
           plain_body |-> <<>>,
           links |-> ToolHtmlContent(doc.elements).links,
           ctas |-> ToolHtmlContent(doc.elements).ctas,
           has_unsubscribe |-> ToolHtmlContent(doc.elements).has_unsubscribe])
    /\ UNCHANGED <<files, loaded_rules, heap, instance>>

(***************************************************************************)
(* Parser inputs                                                           *)
(***************************************************************************)
\* pieces of text from which the inputs of _fix_encoding are put together
Fragments ==
    {<<"&","a","m","p",";">>, <<"n","b","s","p",";">>, <<"a","m","p",";">>, <<"&","n","b","s","p",";">>, <<"l","t",";">>, <<"&">>,
     <<"U+00E2","U+20AC">>, <<"U+2122">>, <<"U+00C3","U+00A9">>, <<"a">>}

MaxFragments == 2

EncodingTexts(n) == {Flatten(fs) : fs \in SeqsUpTo(Fragments, n)}

\* lines of a copy document
TextLines ==
    {<<"S","u","b","j","e","c","t",":"," ","H","i">>, <<"s","l",":"," ","H","i">>, <<"S","L",":"," ">>, <<"S","H","O","P"," ","N","O","W">>, <<"h","t","t","p","s",":","/","/","a",".","c","o","/","s",".">>, <<"S","e","g","m","e","n","t",":"," ","v","i","p">>, <<"N","O","T","E",":"," ","g","o">>}

MaxLines == 3

TextDocs(n) ==
    {[kind |-> "text", text |-> Join(ls, <<"\n">>)] : ls \in SeqsUpTo(TextLines, n) \ {<<>>}}

\* elements of an HTML document
ButtonLink == Element("a", <<"S","h","o","p"," ","n","o","w">>, <<"h","t","t","p","s",":","/","/","a",".","c","o","/","b">>, <<>>, <<>>, Missing, "td", <<<<"b","t","n">>>>)

UpperLink == Element("a", <<"S","H","O","P"," ","N","O","W">>, <<"h","t","t","p","s",":","/","/","a",".","c","o","/","s">>, <<>>, <<>>, Missing, "p", <<>>)

PlainLink == Element("a", <<"R","e","a","d">>, <<"h","t","t","p","s",":","/","/","a",".","c","o","/","r">>, <<>>, <<>>, Missing, "p", <<>>)

NoHrefLink == Element("a", <<"T","O","P">>, Missing, <<<<"c","t","a">>>>, <<>>, Missing, "p", <<>>)

UrlText == Element("p", <<"S","e","e"," ","h","t","t","p","s",":","/","/","a",".","c","o","/","b">>, Missing, <<>>, <<>>, Missing, "body", <<>>)

SubjectText == Element("p", <<"S","u","b","j","e","c","t",":"," ","H","i">>, Missing, <<>>, <<>>, Missing, "body", <<>>)

FromText == Element("p", <<"F","r","o","m",":"," ","A","c","m","e">>, Missing, <<>>, <<>>, Missing, "body", <<>>)

Title == Element("title", <<"S","a","l","e">>, Missing, <<>>, <<>>, Missing, "head", <<>>)

Preheader == Element("div", <<"B","i","g"," ","s","a","l","e"," ","t","o","d","a","y">>, Missing, <<<<"p","r","e","h","e","a","d","e","r">>>>, <<"d","i","s","p","l","a","y",":"," ","n","o","n","e">>, Missing, "body", <<>>)

ShortHidden == Element("span", <<"H","i"," ","a","l","l">>, Missing, <<>>, <<"d","i","s","p","l","a","y",":","n","o","n","e">>, Missing, "body", <<>>)

ClassPreview == Element("td", <<"S","a","v","e"," ","2","0","%"," ","o","n"," ","b","o","o","t","s">>, Missing, <<<<"p","r","e","v","i","e","w">>>>, <<>>, Missing, "tr", <<>>)

Elements ==
    {ButtonLink, UpperLink, PlainLink, NoHrefLink, UrlText, SubjectText, FromText,
     Title, Preheader, ShortHidden, ClassPreview}

MaxElements == 2

HtmlDocs(n) == {[kind |-> "html", elements |-> es] : es \in SeqsUpTo(Elements, n)}

\* parts of a message
HtmlPart(elements) == [content_type |-> "text/html", elements |-> elements, text |-> <<>>]

TextPart(text) == [content_type |-> "text/plain", elements |-> <<>>, text |-> text]

Parts ==
    {HtmlPart(<<ButtonLink>>), HtmlPart(<<UpperLink, UrlText>>),
     HtmlPart(<<>>), TextPart(<<"N","O","T","E",":"," ","g","o","\n","m","o","d","u","l","e",":"," ","H","e","r","o">>)}

MaxParts == 2

Messages(n) ==
    {[kind |-> "eml", subject |-> sj, from |-> fr, parts |-> ps] :
        sj \in {Missing, <<"H","i">>, <<>>}, fr \in {Missing, <<"A","c","m","e"," ","<","a","@","b",".","c","o",">">>, <<"a","@","b",".","c","o">>}, ps \in SeqsUpTo(Parts, n)}

\* the paragraphs of a word-processor document
MaxParagraphs == 2

Docx(n) == {[kind |-> "docx", paragraphs |-> ps] : ps \in SeqsUpTo(TextLines, n)}

\* a document with the file names it can arrive under
DocumentCalls ==
    {<<c, f>> : c \in TextDocs(MaxLines), f \in {Missing, <<"b",".","t","x","t">>}}
    \cup {<<c, f>> : c \in HtmlDocs(MaxElements), f \in {Missing, <<"b",".","h","t","m","l">>}}
    \cup {<<c, f>> : c \in Messages(MaxParts), f \in {<<"b",".","e","m","l">>}}
    \cup {<<c, f>> : c \in Docx(MaxParagraphs), f \in {<<"b",".","d","o","c","x">>}}
    \cup {<<c, f>> : c \in TextDocs(1), f \in {<<"b",".","d","o","c","x">>}}

(***************************************************************************)
(* Specification of the parsers: each parser function applied once to each *)
(* drawn input.                                                            *)
(***************************************************************************)
PendingFix(text) == [op |-> "pending", fn |-> "_fix_encoding", text |-> text]

PendingParse(content, filename) ==
    [op |-> "pending", fn |-> "parse_document", content |-> content, filename |-> filename]

PendingEmail(fn, content) == [op |-> "pending", fn |-> fn, content |-> content]

InitParsers ==
    /\ NoObjects
    /\ files = [k \in ClientKeys |-> Absent]
    /\ loaded_rules = EmptyDict
    /\ result = Returned(EmptyDict)
    /\ call \in {PendingFix(t) : t \in EncodingTexts(MaxFragments)}
                \cup {PendingParse(d[1], d[2]) : d \in DocumentCalls}
                \cup {PendingEmail("parse_email", c) :
                         c \in HtmlDocs(MaxElements) \cup Messages(MaxParts)}
                \cup {PendingEmail("_parse_eml_file", c) : c \in Messages(MaxParts)}
                \cup {PendingEmail("_parse_html_file", c) : c \in HtmlDocs(MaxElements)}

NextParsers ==
    \/ /\ call.op = "pending" /\ call.fn = "_fix_encoding"
       /\ FixEncoding(call.text)
    \/ /\ call.op = "pending" /\ call.fn = "parse_document"
       /\ ParseDocument(call.content, call.filename)
    \/ /\ call.op = "pending" /\ call.fn = "parse_email"
       /\ ParseEmail(call.content)
    \/ /\ call.op = "pending" /\ call.fn = "_parse_eml_file"
       /\ ParseEmlFile(call.content)
    \/ /\ call.op = "pending" /\ call.fn = "_parse_html_file"
       /\ ParseHtmlFile(call.content)

SpecParsers == InitParsers /\ [][NextParsers]_vars


(***************************************************************************)
(* Specification of the line-oriented extraction: parse_document applied   *)
(* once to each copy document of up to MaxCopyLines lines, given as text   *)
(* without a file name.                                                    *)
(***************************************************************************)
\* lines of a copy document: labelled lines and an unlabelled line
LabelLines ==
    {<<"S","u","b","j","e","c","t",":"," ","H","i">>,
     <<"P","r","e","v","i","e","w",":"," ","A">>,
     <<"p","r","e","h","e","a","d","e","r",":"," ","B">>,
     <<"S","e","g","m","e","n","t",":"," ","v","i","p">>,
     <<"N","O","T","E",":"," ","g","o">>,
     <<"f","o","r"," ","y","o","u">>}

\* a subject line, uppercase lines of 2, 8, 30 and 31 characters, one of six
\* words, and a URL
CtaLines ==
    {<<"S","u","b","j","e","c","t",":"," ","H","i">>,
     <<"S","H","O","P"," ","N","O","W">>,
     <<"G","O">>,
     <<"S","H","O","P"," ","T","H","E"," ","N","E","W"," ","S","U","M","M","E","R"," ","C","O","L","L","E","C","T","I","O","N","S">>,
     <<"S","H","O","P"," ","T","H","E"," ","N","E","W"," ","S","U","M","M","E","R"," ","C","O","L","L","E","C","T","I","O","N">>,
     <<"A"," ","B"," ","C"," ","D"," ","E"," ","F">>,
     <<"h","t","t","p","s",":","/","/","a",".","c","o","/","s">>}

MaxCopyLines == 3

CopyDocs(n) ==
    {[kind |-> "text", text |-> Join(ls, <<"\n">>)] :
        ls \in (SeqsUpTo(LabelLines, n) \cup SeqsUpTo(CtaLines, n)) \ {<<>>}}

InitCopy ==
    /\ NoObjects
    /\ files = [k \in ClientKeys |-> Absent]
    /\ loaded_rules = EmptyDict
    /\ result = Returned(EmptyDict)
    /\ call \in {PendingParse(c, Missing) : c \in CopyDocs(MaxCopyLines)}

NextCopy ==
    /\ call.op = "pending"
    /\ ParseDocument(call.content, call.filename)

SpecCopy == InitCopy /\ [][NextCopy]_vars

(***************************************************************************)
(* Specification of the rule cache under concurrent use: two threads call  *)
(* one engine, each call taken statement by statement through load_rules   *)
(* (engine.py lines 76-110), while the rule file is replaced on disk.      *)
(* call[t] is the call of thread t with its position pc, its local rules   *)
(* and the exception it raised; result[t] is what the call returned.       *)
(***************************************************************************)
\* the operations of the engine
EngineOps == {"load_rules", "validate_against_rules", "get_required_ctas",
              "get_utm_requirements"}

Threads == {1, 2}

\* the two threads name the same client in two spellings
ThreadClient(t) == IF t = 1 THEN <<"A"," ","b">> ELSE <<"a","-","B">>

ThreadCall(t, op) ==
    [op |-> op, pc |-> "lookup", client_name |-> ThreadClient(t), hit |-> FALSE,
     rules |-> EmptyDict, raised |-> None]

\* if client_key in self.loaded_rules: return self.loaded_rules[client_key]
CacheLookup(t) ==
    /\ call[t].pc = "lookup"
    /\ call' = [call EXCEPT ![t] =
                   IF ClientKey(call[t].client_name) \in DOMAIN loaded_rules
                   THEN [@ EXCEPT !.pc = "return", !.hit = TRUE,
                                  !.rules = loaded_rules[ClientKey(call[t].client_name)]]
                   ELSE [@ EXCEPT !.pc = "exists"]]
    /\ UNCHANGED <<files, loaded_rules, result, heap, instance>>

\* if not rules_file.exists(): raise FileNotFoundError
FileCheck(t) ==
    /\ call[t].pc = "exists"
    /\ call' = [call EXCEPT ![t] =
                   IF files[ClientKey(call[t].client_name)].kind = "absent"
                   THEN [@ EXCEPT !.pc = "return", !.raised = "FileNotFoundError"]
                   ELSE [@ EXCEPT !.pc = "read"]]
    /\ UNCHANGED <<files, loaded_rules, result, heap, instance>>

\* with open(rules_file) as f: rules = json.load(f)
ReadRules(t) ==
    /\ call[t].pc = "read"
    /\ call' = [call EXCEPT ![t] =
                   IF files[ClientKey(call[t].client_name)].kind = "absent"
                   THEN [@ EXCEPT !.pc = "return", !.raised = "FileNotFoundError"]
                   ELSE IF files[ClientKey(call[t].client_name)].kind = "invalid"
                   THEN [@ EXCEPT !.pc = "return", !.raised = "ValueError"]
                   ELSE [@ EXCEPT !.pc = "validate",
                                  !.rules = files[ClientKey(call[t].client_name)].doc]]
    /\ UNCHANGED <<files, loaded_rules, result, heap, instance>>

\* self._validate_rules_structure(rules, client_name)
ValidateStructure(t) ==
    /\ call[t].pc = "validate"
    /\ call' = [call EXCEPT ![t] =
                   IF _validate_rules_structure(call[t].rules)
                   THEN [@ EXCEPT !.pc = "install"]
                   ELSE [@ EXCEPT !.pc = "return", !.raised = "ValueError",
                                  !.rules = EmptyDict]]
    /\ UNCHANGED <<files, loaded_rules, result, heap, instance>>

\* the assignment made as soon as the file is read, before the structure is
\* validated
InstallBeforeValidation(t) ==
    /\ call[t].pc \in {"validate", "install"}
    /\ loaded_rules' = (ClientKey(call[t].client_name) :> call[t].rules) @@ loaded_rules
    /\ call' = [call EXCEPT ![t].pc = IF @ = "validate" THEN "validate" ELSE "return"]
    /\ UNCHANGED <<files, result, heap, instance>>

\* self.loaded_rules[client_key] = rules
InstallRules(t) ==
    /\ call[t].pc = "install"
    /\ loaded_rules' = (ClientKey(call[t].client_name) :> call[t].rules) @@ loaded_rules
    /\ call' = [call EXCEPT ![t].pc = "return"]
    /\ UNCHANGED <<files, result, heap, instance>>

\* what the operation returns once load_rules has returned or raised
\* (engine.py lines 152-223, 566-583, 595-600)
Outcome(c) ==
    IF c.op = "load_rules"
    THEN IF c.raised # None THEN Raised(c.raised) ELSE Returned(c.rules)
    ELSE IF c.op = "validate_against_rules"
    THEN IF c.raised = "FileNotFoundError"
         THEN Returned(NoRulesResult(c.client_name, None, None))
         ELSE IF c.raised # None THEN Raised(c.raised)
         ELSE Returned(RunChecks(EmailGood, c.rules, c.client_name, None, None))
    ELSE IF c.op = "get_required_ctas"
    THEN IF c.raised = "FileNotFoundError" THEN Returned(<<>>)
         ELSE IF c.raised # None THEN Raised(c.raised)
         ELSE IF "ctas" \notin DOMAIN c.rules THEN Returned(<<>>)
         ELSE IF "all" \in DOMAIN c.rules["ctas"] THEN Returned(c.rules["ctas"]["all"])
         ELSE Returned(<<>>)
    ELSE IF c.raised = "FileNotFoundError" THEN Returned(EmptyDict)
         ELSE IF c.raised # None THEN Raised(c.raised)
         ELSE Returned(Get(c.rules, "utm_requirements", EmptyDict))

ReturnToCaller(t) ==
    /\ call[t].pc = "return"
    /\ result' = [result EXCEPT ![t] = Outcome(call[t])]
    /\ call' = [call EXCEPT ![t].pc = "done"]
    /\ UNCHANGED <<files, loaded_rules, heap, instance>>

\* the rule file is replaced on disk while the calls run
ReplaceRulesFile(client_key, content) ==
    /\ files[client_key] # content
    /\ files' = [files EXCEPT ![client_key] = content]
    /\ UNCHANGED <<loaded_rules, call, result, heap, instance>>

InitThreads ==
    /\ NoObjects
    /\ \E c \in FileContents :
          files = [k \in ClientKeys |-> IF k = ClientKey(ThreadClient(1)) THEN c ELSE Absent]
    /\ loaded_rules = EmptyDict
    /\ call \in [Threads -> {ThreadCall(t, op) : t \in Threads, op \in EngineOps}]
    /\ \A t \in Threads : call[t].client_name = ThreadClient(t)
    /\ result = [t \in Threads |-> Returned(EmptyDict)]

NextThreads ==
    \/ \E t \in Threads : CacheLookup(t)
    \/ \E t \in Threads : FileCheck(t)
    \/ \E t \in Threads : ReadRules(t)
    \/ \E t \in Threads : ValidateStructure(t)
    \/ \E t \in Threads : InstallRules(t)
    \/ \E t \in Threads : ReturnToCaller(t)
    \/ \E c \in WrittenContents : ReplaceRulesFile(ClientKey(ThreadClient(1)), c)

SpecThreads == InitThreads /\ [][NextThreads]_vars

(***************************************************************************)
(* Specification of returned requirements held by reference.  A document   *)
(* parser (universal_parser.py lines 103-106) keeps its list of encoding   *)
(* issues in the attribute encoding_issues_found; every requirements       *)
(* dictionary it returns holds that list itself under 'encoding_issues'    *)
(* (line 381).  The object store holds the lists and the requirements;     *)
(* result.value of parse_document is the reference of the requirements.    *)
(***************************************************************************)
ListObject(items) == [kind |-> "list", value |-> items]

DictObject(value) == [kind |-> "dict", value |-> value]

\* the references of the requirements in an object store
RequirementRefs(h) == {ref \in 1..Len(h) : h[ref].kind = "dict"}

\* what the holder of a reference to requirements reads
Observed(h, ref) == [h[ref].value EXCEPT !.encoding_issues = h[@].value]

\* str.title()
TitleCase(s) ==
    [i \in 1..Len(s) |->
        IF i > 1 /\ (IsUpperChar(s[i - 1]) \/ IsLowerChar(s[i - 1]))
        THEN LowerChar(s[i]) ELSE UpperChar(s[i])]

CtaStyles == {"UPPERCASE", "lowercase", "Title Case"}

\* _apply_cta_style (qa_workflow.py lines 670-693) on the dictionary it is given
_apply_cta_style(requirements, style) ==
    [requirements EXCEPT !.ctas =
        [i \in 1..Len(@) |->
            [@[i] EXCEPT !.text = IF style = "UPPERCASE" THEN Upper(@)
                                  ELSE IF style = "lowercase" THEN Lower(@)
                                  ELSE IF style = "Title Case" THEN TitleCase(@)
                                  ELSE @]]]

\* rules.get('brand', {}).get('cta', {}).get('style')
CtaStyleOf(rules) == Get(Get(Get(rules, "brand", EmptyDict), "cta", EmptyDict), "style", None)

\* _extract_requirements_safely (qa_workflow.py lines 239-267) on a parsed
\* document: the dictionary is changed in place and returned
ExtractRequirementsSafely(doc, rules) ==
    /\ call' = [op |-> "_extract_requirements_safely", doc |-> doc, rules |-> rules]
    /\ heap' = IF Truthy(CtaStyleOf(rules))
               THEN [heap EXCEPT ![doc].value = _apply_cta_style(@, CtaStyleOf(rules))]
               ELSE heap
    /\ result' = Returned(doc)
    /\ UNCHANGED <<files, loaded_rules, instance>>

MaxObjects == 5

\* parse_document on the parser (universal_parser.py lines 108-173): the
\* issue list is replaced by a new one (line 122), which the returned
\* requirements hold
ParseDocumentObject(content, filename) ==
    /\ Len(heap) + 2 <= MaxObjects
    /\ call' = [op |-> "parse_document", content |-> content, filename |-> filename]
    /\ \E requirements \in parse_document(content, filename) :
          heap' = heap \o << ListObject(requirements.encoding_issues),
                             DictObject([requirements EXCEPT
                                            !.encoding_issues = Len(heap) + 1]) >>
    /\ instance' = [instance EXCEPT !.encoding_issues_found = Len(heap) + 1]
    /\ result' = Returned(Len(heap) + 2)
    /\ UNCHANGED <<files, loaded_rules>>

\* the components of extract_email_components (universal_parser.py lines
\* 570-606) before their encoding is fixed, for a message or for content
\* that _is_eml refuses
EmailComponents(email_content) ==
    IF email_content.kind = "eml"
    THEN LET html == SelectSeq(email_content.parts,
                        LAMBDA p : p.content_type = "text/html" /\ p.elements # <<>>)
             plain == SelectSeq(email_content.parts,
                        LAMBDA p : p.content_type = "text/plain" /\ p.text # <<>>)
         IN  [subject |-> IF email_content.subject = Missing THEN <<>>
                          ELSE email_content.subject,
              from |-> IF email_content.from = Missing THEN <<>> ELSE email_content.from,
              preview_text |-> <<>>,
              html_body |-> IF html = <<>> THEN <<>>
                            ELSE ElementsText(html[Len(html)].elements),
              plain_body |-> IF plain = <<>> THEN <<>> ELSE plain[Len(plain)].text,
              headers |-> EmptyDict]
    ELSE [subject |-> <<>>, from |-> <<>>, preview_text |-> <<>>,
          html_body |-> ContentText(email_content), plain_body |-> <<>>,
          headers |-> EmptyDict]

ComponentKeys == <<"subject", "from", "preview_text", "html_body", "plain_body">>

\* the loop of lines 608-611: _fix_encoding on each str component in turn,
\* every replacement appended to the parser's issue list
RECURSIVE FixComponents(_, _, _)
FixComponents(components, found, i) ==
    IF i > Len(ComponentKeys) THEN [components |-> components, found |-> found]
    ELSE LET fix == FixLoop(components[ComponentKeys[i]], found, 1)
         IN  FixComponents([components EXCEPT ![ComponentKeys[i]] = fix.text],
                           fix.encoding_issues_found, i + 1)

MaxIssues == 1

\* extract_email_components on the parser: the issue list is not replaced
ExtractEmailComponents(email_content) ==
    LET list == instance.encoding_issues_found
        fixed == FixComponents(EmailComponents(email_content), heap[list].value, 1)
    IN  /\ email_content.kind = "eml" \/ ~_is_eml(email_content)
        /\ Len(heap[list].value) < MaxIssues
        /\ call' = [op |-> "extract_email_components", email_content |-> email_content]
        /\ heap' = [heap EXCEPT ![list].value = fixed.found]
        /\ result' = Returned(fixed.components)
        /\ UNCHANGED <<files, loaded_rules, instance>>

\* documents with a CTA
RequirementDocs ==
    {[kind |-> "text", text |-> <<"S","H","O","P"," ","N","O","W","\n","h","t","t","p","s",":","/","/","a",".","c","o","/","s">>],
     [kind |-> "html", elements |-> <<ButtonLink>>]}

BrokenQuote == Element("p", <<"I","t","U+00E2","U+20AC","U+2122","s">>, Missing, <<>>, <<>>, Missing, "body", <<>>)

EmailContents ==
    {[kind |-> "html", elements |-> <<BrokenQuote>>],
     [kind |-> "eml", subject |-> <<"H","i"," ","&","a","m","p",";"," ","y","o","u">>,
      from |-> Missing, parts |-> <<>>]}

StyleRules ==
    {EmptyDict, [brand |-> EmptyDict]}
       \cup {[brand |-> [cta |-> [style |-> s]]] : s \in CtaStyles \cup {""}}

InitRequirements ==
    /\ heap = <<ListObject(<<>>)>>
    /\ instance = [encoding_issues_found |-> 1]
    /\ files = [k \in ClientKeys |-> Absent]
    /\ loaded_rules = EmptyDict
    /\ call = NoCall
    /\ result = Returned(EmptyDict)

NextRequirements ==
    \/ \E content \in RequirementDocs : ParseDocumentObject(content, <<"d",".","t","x","t">>)
    \/ \E email_content \in EmailContents : ExtractEmailComponents(email_content)
    \/ \E doc \in RequirementRefs(heap), rules \in StyleRules :
          ExtractRequirementsSafely(doc, rules)

SpecRequirements == InitRequirements /\ [][NextRequirements]_vars

(***************************************************************************)
(* Specification of the legacy rules engine (dynamic_rules.py).  The       *)
(* engine keeps its default template in the attribute template and the     *)
(* last rules it created in the attribute rules.  A rules dictionary holds *)
(* its brand and metadata dictionaries by reference and its segments and   *)
(* links by value; the brand object stands for the brand dictionary with   *)
(* its tone and cta dictionaries, which no code replaces.  The clock is    *)
(* the value datetime.now() last gave.                                     *)
(***************************************************************************)
RulesObject(value) == [kind |-> "rules", value |-> value]

\* the references of the rules dictionaries in an object store
RulesRefs(h) == {ref \in 1..Len(h) : h[ref].kind = "rules"}

\* what the holder of a reference to rules reads
ObservedRules(h, ref) ==
    [h[ref].value EXCEPT !.brand = h[@].value, !.metadata = h[@].value]

\* _create_default_template (dynamic_rules.py lines 82-130)
DefaultBrand ==
    [tone |-> [description |-> <<>>, examples |-> <<>>, keywords |-> <<>>],
     cta |-> [style |-> "UPPERCASE", preferred_verbs |-> <<>>, avoided_phrases |-> <<>>],
     dos |-> <<>>,
     donts |-> <<>>]

DefaultValidation ==
    [strict_mode |-> FALSE, allow_variations |-> TRUE, encoding_tolerance |-> TRUE,
     case_sensitive |-> FALSE]

DefaultMetadata(now) ==
    [created_at |-> now, updated_at |-> now, version |-> <<"1",".","0",".","0">>]

DefaultTemplate(brand, metadata) ==
    [brand |-> brand, segments |-> EmptyDict, links |-> EmptyDict, modules |-> EmptyDict,
     validation |-> DefaultValidation, metadata |-> metadata]

MaxRules == 2

\* create_rules (dynamic_rules.py lines 132-181): the copy of the template
\* is shallow, so the brand fields and updated_at are assigned in the
\* dictionaries the template holds
CreateRules(config, now) ==
    LET template == heap[instance.template].value
        has(key) == key \in DOMAIN config
        brand == [heap[template.brand].value EXCEPT
                    !.tone.description = IF has("brand_tone") THEN config["brand_tone"] ELSE @,
                    !.cta.style = IF has("cta_style") THEN config["cta_style"] ELSE @,
                    !.cta.preferred_verbs =
                        IF has("preferred_verbs") THEN config["preferred_verbs"] ELSE @,
                    !.dos = IF has("dos") THEN config["dos"] ELSE @,
                    !.donts = IF has("donts") THEN config["donts"] ELSE @]
        rules == [template EXCEPT
                    !.segments = IF has("segments") THEN config["segments"] ELSE @,
                    !.links = IF has("links") THEN config["links"] ELSE @]
    IN  /\ Cardinality(RulesRefs(heap)) <= MaxRules
        /\ call' = [op |-> "create_rules", config |-> config]
        /\ heap' = Append([heap EXCEPT ![template.brand].value = brand,
                                       ![template.metadata].value.updated_at = now],
                          RulesObject(rules))
        /\ instance' = [instance EXCEPT !.rules = Len(heap) + 1, !.now = now]
        /\ result' = Returned(Len(heap) + 1)
        /\ UNCHANGED <<files, loaded_rules>>

\* a config with every key create_rules reads, and the configs with some of them
FullConfig ==
    [brand_tone |-> <<"w","a","r","m">>,
     cta_style |-> "lowercase",
     preferred_verbs |-> << <<"S","h","o","p">> >>,
     dos |-> << <<"B","e"," ","k","i","n","d">> >>,
     donts |-> << <<"S","h","o","u","t">> >>,
     segments |-> [vip |-> EmptyDict],
     links |-> [primary_cta |-> [text |-> <<"G","O">>]]]

Configs == {[k \in keys |-> FullConfig[k]] : keys \in SUBSET DOMAIN FullConfig}

\* the engine after __init__ (dynamic_rules.py lines 66-79)
InitLegacy ==
    /\ heap = << DictObject(DefaultBrand), DictObject(DefaultMetadata(0)),
                 RulesObject(DefaultTemplate(1, 2)) >>
    /\ instance = [template |-> 3, rules |-> None, now |-> 0]
    /\ files = [k \in ClientKeys |-> Absent]
    /\ loaded_rules = EmptyDict
    /\ call = NoCall
    /\ result = Returned(EmptyDict)

NextLegacy ==
    \E config \in Configs, now \in {instance.now, instance.now + 1} :
        CreateRules(config, now)

SpecLegacy == InitLegacy /\ [][NextLegacy]_vars

(***************************************************************************)
(* Specification of the QA workflow (qa_workflow.py).  A workflow keeps    *)
(* its lists of errors and warnings in the attributes errors and warnings  *)
(* (lines 108-109).  run_qa returns the dictionary of a QAResult, which    *)
(* holds its errors and warnings lists by reference; of its other fields   *)
(* the status is kept.  A content or rules that is None is [kind |->       *)
(* "none"].  A message is a tuple: its text, then the values formatted     *)
(* into it.                                                                *)
(***************************************************************************)
NoneValue == [kind |-> "none"]

ResultObject(value) == [kind |-> "result", value |-> value]

\* the references of the results in an object store
ResultRefs(h) == {ref \in 1..Len(h) : h[ref].kind = "result"}

\* what the holder of a returned result reads
ObservedResult(h, ref) ==
    [h[ref].value EXCEPT !.errors = h[@].value, !.warnings = h[@].value]

\* the str fields of the components, in the order of the dictionary
StrKeys ==
    <<"subject", "from", "from_name", "preview_text", "html_body", "plain_body",
      "unsubscribe_link">>

\* the entries _fix_encoding_in_components (email_parser.py lines 470-479)
\* appends for the str fields from key i on
RECURSIVE FixIssues(_, _)
FixIssues(components, i) ==
    IF i > Len(StrKeys) THEN <<>>
    ELSE LET value == IF StrKeys[i] = "html_body"
                      THEN ElementsText(components.html_body)
                      ELSE components[StrKeys[i]]
             found == FixLoop(value, <<>>, 1).encoding_issues_found
         IN  [j \in 1..Len(found) |-> <<"Fixed in", found[j][2], StrKeys[i]>>]
                \o FixIssues(components, i + 1)

\* every entry of PHYSICAL_ADDRESS_PATTERNS (email_parser.py lines 91-96)
\* requires a digit
NoDigit(text) == \A i \in 1..Len(text) : text[i] \notin Digits

\* components['encoding_issues'] of parse_email (email_parser.py lines
\* 109-169, 434-452) for an HTML email whose text has no digit
EmailIssues(email_content) ==
    LET components == _parse_html_content(email_content.elements,
                          [NoComponents EXCEPT !.html_body = email_content.elements])
    IN  FixIssues(components, 1)
           \o (IF components.has_unsubscribe THEN <<>>
               ELSE << <<"Missing unsubscribe link (CAN-SPAM requirement)">> >>)
           \o << <<"Missing physical address (CAN-SPAM requirement)">> >>

\* what one run_qa appends to the workflow's lists and the exception its
\* try block raises, << >> when none (qa_workflow.py lines 151-204):
\* _safe_parse_document and _safe_parse_email record the exception of a
\* content that is not a str; _extract_requirements_safely records the
\* exception of rules that are not a dictionary, which
\* _analyze_email_content then raises before it reads the encoding issues
RunSteps(doc_content, email_content, rules) ==
    LET parsed_doc == doc_content.kind # "none"
        parsed_email == email_content.kind # "none"
        parsed == parsed_doc /\ parsed_email
    IN  [errors |->
            (IF parsed_doc THEN <<>> ELSE << <<"Document parsing error", "TypeError">> >>)
               \o (IF parsed_email THEN <<>>
                   ELSE << <<"Email parsing error", "TypeError">> >>),
         warnings |->
            (IF parsed /\ rules.kind = "none"
             THEN << <<"Extraction warning", "AttributeError">> >> ELSE <<>>)
               \o (IF parsed /\ rules.kind # "none" THEN EmailIssues(email_content)
                   ELSE <<>>),
         raised |->
            IF ~parsed THEN <<"Failed to parse input documents">>
            ELSE IF rules.kind = "none" THEN <<"AttributeError">>
            ELSE <<>>]

\* QAResult() (qa_workflow.py lines 67-80) with its two new lists
QAResult(errors, warnings) ==
    [status |-> "IN_PROGRESS", errors |-> errors, warnings |-> warnings]

MaxRuns == 2

\* run_qa (qa_workflow.py lines 122-225).  The lists of the workflow are
\* not replaced; a completed run puts them into its result (lines 203-204),
\* a failed run appends the exception to the result's own list (line 208).
\* When the error log cannot be written (_handle_critical_error, lines
\* 746-764) the exception leaves run_qa and no result is returned.
RunQa(doc_content, email_content, rules, log_written) ==
    LET steps == RunSteps(doc_content, email_content, rules)
        appended == [heap EXCEPT ![instance.errors].value = @ \o steps.errors,
                                 ![instance.warnings].value = @ \o steps.warnings]
        results == QAResult(Len(heap) + 1, Len(heap) + 2)
    IN  /\ instance.runs < MaxRuns
        /\ email_content.kind # "none" => NoDigit(ElementsText(email_content.elements))
        /\ steps.raised # <<>> \/ log_written
        /\ call' = [op |-> "run_qa", doc_content |-> doc_content,
                    email_content |-> email_content, rules |-> rules]
        /\ instance' = [instance EXCEPT !.runs = @ + 1]
        /\ IF steps.raised = <<>>
           THEN /\ heap' = Append(appended,
                              ResultObject([results EXCEPT !.status = "COMPLETED",
                                                           !.errors = instance.errors,
                                                           !.warnings = instance.warnings]))
                /\ result' = Returned(Len(heap) + 1)
           ELSE IF log_written
           THEN /\ heap' = appended \o << ListObject(<<steps.raised>>), ListObject(<<>>),
                                          ResultObject([results EXCEPT !.status = "FAILED"]) >>
                /\ result' = Returned(Len(heap) + 3)
           ELSE /\ heap' = appended
                /\ result' = Raised("OSError")
        /\ UNCHANGED <<files, loaded_rules>>

OptOutLink == Element("a", <<"U","n","s","u","b","s","c","r","i","b","e">>, <<"h","t","t","p","s",":","/","/","a",".","c","o","/","u">>, <<>>, <<>>, Missing, "p", <<>>)

WorkflowDocs == {NoneValue, [kind |-> "text", text |-> <<"S","H","O","P"," ","N","O","W">>]}

WorkflowEmails ==
    {NoneValue,
     [kind |-> "html", elements |-> <<ButtonLink>>],
     [kind |-> "html", elements |-> <<OptOutLink>>],
     [kind |-> "html", elements |-> <<BrokenQuote, OptOutLink>>]}

WorkflowRules ==
    {NoneValue, Dict(EmptyDict), Dict([validation |-> [strict_mode |-> FALSE]])}

\* the workflow after __init__ (qa_workflow.py lines 97-120)
InitWorkflow ==
    /\ heap = <<ListObject(<<>>), ListObject(<<>>)>>
    /\ instance = [errors |-> 1, warnings |-> 2, runs |-> 0]
    /\ files = [k \in ClientKeys |-> Absent]
    /\ loaded_rules = EmptyDict
    /\ call = NoCall
    /\ result = Returned(EmptyDict)

NextWorkflow ==
    \E doc_content \in WorkflowDocs, email_content \in WorkflowEmails,
       rules \in WorkflowRules, log_written \in BOOLEAN :
        RunQa(doc_content, email_content, rules, log_written)

SpecWorkflow == InitWorkflow /\ [][NextWorkflow]_vars

(***************************************************************************)
(* Properties                                                              *)
(***************************************************************************)
\* the last operation was validate_against_rules and it returned
IsValidation == call.op = "validate_against_rules" /\ result.raised = None

\* the last operation was _run and it returned a non-error result
IsRun == call.op = "_run" /\ "error" \notin DOMAIN result.value

\* C1: passed is true exactly when issues is empty in every result of
\* validate_against_rules, whatever the warnings; success is true exactly
\* when issues is empty in every non-error result of _run.
C1_PassedIffNoIssues ==
    /\ IsValidation => (result.value.passed <=> result.value.issues = <<>>)
    /\ IsRun => (result.value.success <=> result.value.issues = <<>>)

\* a validation that passed although it produced warnings
C1_Witness ==
    /\ IsValidation
    /\ result.value.passed
    /\ result.value.warnings # <<>>
    /\ "modules" \in DOMAIN result.value.validations

Malformed(file) ==
    file.kind = "invalid" \/ (file.kind = "json" /\ "client_name" \notin DOMAIN file.doc)

\* C2: a validate_against_rules call for a client without a rules file (and
\* without a cache entry) returns passed = FALSE, the single issue "No rules
\* configured", no warnings and no validations, and leaves the cache as it was.
C2_NoRulesFile ==
    [][(/\ call'.op = "validate_against_rules"
        /\ ClientKey(call'.client_name) \notin DOMAIN loaded_rules
        /\ files[ClientKey(call'.client_name)].kind = "absent")
       => (/\ result'.raised = None
           /\ result'.value.passed = FALSE
           /\ Len(result'.value.issues) = 1
           /\ result'.value.issues[1] = <<"No rules configured for client", call'.client_name>>
           /\ result'.value.warnings = <<>>
           /\ result'.value.validations = EmptyDict
           /\ loaded_rules' = loaded_rules)]_vars

\* validate_against_rules answered for a client without rules while another
\* client's rules were cached
C2_Witness ==
    /\ IsValidation
    /\ "error" \in DOMAIN result.value
    /\ files[ClientKey(call.client_name)].kind = "absent"
    /\ loaded_rules # EmptyDict

Checked == IsValidation /\ "error" \notin DOMAIN result.value

\* the rules that the last validation ran against
CheckedRules == loaded_rules[ClientKey(call.client_name)]

\* the number of entries of seq equal to x
Count(seq, x) == Cardinality({k \in 1..Len(seq) : seq[k] = x})

\* the entries of a message list that report the don't phrase p
DontEntries(msgs, p) ==
    {k \in 1..Len(msgs) : msgs[k][1] = "DON'T violation" /\ msgs[k][3] = p}

\* C4: every don't phrase found in the lower-cased subject, preview text,
\* HTML body and plain body is reported at its declared severity: severity
\* "error" puts an entry in issues and makes passed false, severity
\* "warning" puts an entry in warnings and none in issues.
C4_DontsAtDeclaredSeverity ==
    (Checked /\ "dos_and_donts" \in DOMAIN CheckedRules) =>
        LET donts == Get(CheckedRules["dos_and_donts"], "donts", <<>>)
            v == result.value
        IN  \A i \in 1..Len(donts) :
               LET p == Lower(Get(donts[i], "phrase", <<>>))
                   severity == Get(donts[i], "severity", "warning")
               IN  Contains(p, CopyText(call.email_data)) =>
                      /\ severity = "error" =>
                            (DontEntries(v.issues, p) # {} /\ ~v.passed)
                      /\ severity = "warning" =>
                            (DontEntries(v.warnings, p) # {} /\ DontEntries(v.issues, p) = {})

\* an email with an error-level don't phrase passed with no issue at all
C4_Witness ==
    /\ Checked
    /\ "dos_and_donts" \in DOMAIN CheckedRules
    /\ \E i \in 1..Len(CheckedRules["dos_and_donts"].donts) :
          LET d == CheckedRules["dos_and_donts"].donts[i]
          IN  /\ Get(d, "severity", "warning") = "error"
              /\ Contains(Lower(d.phrase), CopyText(call.email_data))
              /\ DontEntries(result.value.warnings, Lower(d.phrase)) # {}
    /\ result.value.passed
    /\ result.value.issues = <<>>

\* the key of a rule section's result in validations (engine.py lines 179-210)
ValidationKey(section) == IF section = "dos_and_donts" THEN "copywriting" ELSE section

\* the messages that the check of a rule section can produce
MessagesOf(section) ==
    IF section = "segmentation"
    THEN {"No segmentation rules defined for segment", "Subject line missing keywords",
          "Preview text missing keywords"}
    ELSE IF section = "modules"
    THEN {"No module requirements defined", "Required module missing",
          "Optional module missing"}
    ELSE IF section = "brand"
    THEN {"Brand phone number not found", "handle not found",
          "Company info not found in email", "From name mismatch", "From email mismatch"}
    ELSE IF section = "dos_and_donts"
    THEN {"DON'T violation", "DO recommendation"}
    ELSE {"Missing required unsubscribe link (CAN-SPAM violation)",
          "Physical address may be missing (CAN-SPAM requires it)",
          "Company name should be clearly visible", "CTA not uppercase", "CTA not title case"}

\* C5: a rule section absent from the client's rules contributes no issue
\* and no warning and has no entry in validations; rules holding only
\* client_name give passed = TRUE with empty issues, warnings and validations.
C5_AbsentSectionSkipped ==
    Checked =>
        LET v == result.value
        IN  /\ \A section \in Sections \ DOMAIN CheckedRules :
                  /\ ValidationKey(section) \notin DOMAIN v.validations
                  /\ \A k \in 1..Len(v.issues) : v.issues[k][1] \notin MessagesOf(section)
                  /\ \A k \in 1..Len(v.warnings) : v.warnings[k][1] \notin MessagesOf(section)
            /\ DOMAIN CheckedRules = {"client_name"} =>
                  /\ v.passed
                  /\ v.issues = <<>>
                  /\ v.warnings = <<>>
                  /\ v.validations = EmptyDict

\* rules without a modules section but with a compliance section, checked
\* against an email that fails compliance and contains none of the module keywords
C5_Witness ==
    /\ Checked
    /\ "modules" \notin DOMAIN CheckedRules
    /\ "compliance" \in DOMAIN CheckedRules
    /\ call.email_data = EmailBad
    /\ result.value.issues # <<>>
    /\ "compliance" \in DOMAIN result.value.validations

UnsubMsg == <<"Missing required unsubscribe link (CAN-SPAM violation)">>

AddressMsg == <<"Physical address may be missing (CAN-SPAM requires it)">>

CompanyMsg == <<"Company name should be clearly visible">>

\* has_unsubscribe is false or absent
UnsubMissing(email_data) ==
    "has_unsubscribe" \notin DOMAIN email_data \/ email_data["has_unsubscribe"] = FALSE

\* the sender display name is empty or absent
CompanyMissing(email_data) ==
    "from_name" \notin DOMAIN email_data \/ email_data["from_name"] = <<>>

\* C6: per element of compliance.required_elements, a missing unsubscribe
\* link is an issue and makes passed false; a missing physical address or
\* company name is a warning and never an issue. Rules whose only check is
\* required_elements = ["unsubscribe_link"], with has_unsubscribe = FALSE,
\* give exactly one issue, the unsubscribe one, and passed = FALSE.
C6_ComplianceSeverities ==
    (Checked /\ "compliance" \in DOMAIN CheckedRules) =>
        LET v == result.value
            e == call.email_data
            elems == Get(CheckedRules["compliance"], "required_elements", <<>>)
            n(x) == Count(elems, x)
        IN  /\ Count(v.issues, UnsubMsg) =
                  (IF UnsubMissing(e) THEN n("unsubscribe_link") ELSE 0)
            /\ (n("unsubscribe_link") > 0 /\ UnsubMissing(e)) => ~v.passed
            /\ Count(v.warnings, AddressMsg) =
                  (IF ~HasAddress(e) THEN n("physical_address") ELSE 0)
            /\ Count(v.warnings, CompanyMsg) =
                  (IF CompanyMissing(e) THEN n("company_name") ELSE 0)
            /\ Count(v.issues, AddressMsg) = 0
            /\ Count(v.issues, CompanyMsg) = 0
            /\ Count(v.warnings, UnsubMsg) = 0
            /\ (CheckedRules = DocUnsubOnly /\ "has_unsubscribe" \in DOMAIN e
                  /\ e["has_unsubscribe"] = FALSE)
               => (v.issues = <<UnsubMsg>> /\ v.passed = FALSE)

\* the unsubscribe-only rules against an email with has_unsubscribe = FALSE
C6_Witness ==
    /\ Checked
    /\ CheckedRules = DocUnsubOnly
    /\ "has_unsubscribe" \in DOMAIN call.email_data
    /\ call.email_data["has_unsubscribe"] = FALSE
    /\ result.value.issues = <<UnsubMsg>>
    /\ result.value.passed = FALSE

\* the module definitions selected by segment, campaign and "all", as a set
ModuleUnion(module_rules, segment, campaign) ==
    UNION {SeqToSet(module_rules[k]) : k \in {segment, campaign, "all"} \cap DOMAIN module_rules}

\* C7: the modules evaluated are the union of the definitions under the
\* segment key, the campaign key and "all"; each lands in exactly one of
\* found_modules and missing_modules; a missing module that is required (or
\* has no required flag) adds exactly one issue, a missing optional module
\* exactly one warning and no issue.
C7_ModulesUnionOnce ==
    (Checked /\ "modules" \in DOMAIN CheckedRules) =>
        LET m == result.value.validations["modules"]
            U == ModuleUnion(CheckedRules["modules"], call.segment, call.campaign)
        IN  /\ SeqToSet(m.found_modules) \cup SeqToSet(m.missing_modules) = {d.name : d \in U}
            /\ \A d \in U :
                  LET missing == Count(m.missing_modules, d.name)
                      issues == Count(result.value.issues, <<"Required module missing", d.name>>)
                      warnings == Count(result.value.warnings, <<"Optional module missing", d.name>>)
                  IN  /\ Count(m.found_modules, d.name) + missing = 1
                      /\ (missing > 0 /\ Get(d, "required", TRUE)) => (issues = 1 /\ warnings = 0)
                      /\ (missing > 0 /\ ~Get(d, "required", TRUE)) => (warnings = 1 /\ issues = 0)
                      /\ missing = 0 => (issues = 0 /\ warnings = 0)

\* one missing module definition, reached through two keys, reported twice
C7_Witness ==
    /\ Checked
    /\ "modules" \in DOMAIN CheckedRules
    /\ \E d \in ModuleUnion(CheckedRules["modules"], call.segment, call.campaign) :
          /\ Count(result.value.validations["modules"].missing_modules, d.name) = 2
          /\ Count(result.value.issues, <<"Required module missing", d.name>>) = 2

\* the decoded arguments of the last _run
RunLinks == Get(EmailData(call.email_links), "links", <<>>)

RunCtas == Get(EmailData(call.email_links), "ctas", <<>>)

RunRequired == RequiredData(call.required_links)

\* runs of whitespace replaced by one space
RECURSIVE CollapseWhitespace(_)
CollapseWhitespace(s) ==
    IF s = <<>> THEN <<>>
    ELSE IF Head(s) \notin Whitespace THEN <<Head(s)>> \o CollapseWhitespace(Tail(s))
    ELSE IF Len(s) > 1 /\ s[2] \in Whitespace THEN CollapseWhitespace(Tail(s))
    ELSE <<" ">> \o CollapseWhitespace(Tail(s))

\* trimmed, whitespace-collapsed and upper-cased
CtaCanonical(text) == Upper(CollapseWhitespace(Strip(text, Whitespace)))

\* C8: a required CTA is reported missing (one issue, listed in
\* missing_ctas) exactly when no email CTA has the same text after trimming,
\* collapsing runs of whitespace and upper-casing both sides; every email CTA
\* that differs from its upper-cased form adds one warning and no issue.
C8_CtaMatchingCollapsed ==
    IsRun =>
        LET cv == result.value.cta_validation
            required_ctas == Get(RunRequired, "required_ctas", <<>>)
            lower == {i \in 1..Len(RunCtas) : RunCtas[i]["text"] # Upper(RunCtas[i]["text"])}
        IN  /\ \A j \in 1..Len(required_ctas) :
                  LET absent == \A i \in 1..Len(RunCtas) :
                                   CtaCanonical(RunCtas[i]["text"]) # CtaCanonical(required_ctas[j])
                  IN  /\ Count(cv.missing_ctas, required_ctas[j]) = (IF absent THEN 1 ELSE 0)
                      /\ Count(cv.issues, <<"Missing required CTA", required_ctas[j]>>)
                            = (IF absent THEN 1 ELSE 0)
            /\ Len(cv.warnings) = Cardinality(lower)
            /\ \A i \in lower : Count(cv.warnings, <<"CTA not uppercase", RunCtas[i]["text"]>>) > 0
            /\ Len(cv.issues) = Len(cv.missing_ctas)

\* a required CTA reported missing although an email CTA differs from it
\* only by case and by the amount of whitespace
C8_Witness ==
    /\ IsRun
    /\ \E j \in 1..Len(result.value.cta_validation.missing_ctas), i \in 1..Len(RunCtas) :
          CtaCanonical(RunCtas[i]["text"])
             = CtaCanonical(result.value.cta_validation.missing_ctas[j])
    /\ result.value.success = FALSE

RECURSIVE DigitsOf(_)
DigitsOf(s) ==
    IF s = <<>> THEN <<>>
    ELSE (IF Head(s) \in Digits THEN <<Head(s)>> ELSE <<>>) \o DigitsOf(Tail(s))

\* all non-digits removed, the leading 1 of an 11-digit number dropped
NormalizedNumber(s) ==
    IF Len(DigitsOf(s)) = 11 /\ Head(DigitsOf(s)) = "1" THEN Tail(DigitsOf(s)) ELSE DigitsOf(s)

\* the indices of the tel: links of the last _run
TelLinks == {i \in 1..Len(RunLinks) : StartsWith(Get(RunLinks[i], "url", <<>>), TelPrefix)}

TelNumber(i) == SubSeq(RunLinks[i]["url"], Len(TelPrefix) + 1, Len(RunLinks[i]["url"]))

ScenarioCLink ==
    [url |-> <<"t","e","l",":","+","1","7","7","0","6","3","7","0","4","4","1">>,
     text |-> <<"C","a","l","l">>]

\* C9: for a required phone with at least one digit, the phone issues are
\* empty exactly when there is a tel: link and every tel: link normalizes to
\* the normalized required phone; a required phone on no tel: link is one
\* issue, each mismatching tel: link is one issue, a mismatching phone-like
\* token in a link text is a warning only; tel:+17706370441 against
\* 770-637-0441 gives no issue.
C9_PhoneValidation ==
    (IsRun /\ DigitsOf(Get(RunRequired, "required_phone", <<>>)) # <<>>) =>
        LET pv == result.value.phone_validation
            required_phone == RunRequired["required_phone"]
            want == NormalizedNumber(required_phone)
            bad == {i \in TelLinks : NormalizedNumber(TelNumber(i)) # want}
            notFound == {k \in 1..Len(pv.issues) : pv.issues[k][1] = "Required phone number not found"}
            mismatch == {k \in 1..Len(pv.issues) : pv.issues[k][1] = "Phone number mismatch"}
            tokens == {i \in 1..Len(RunLinks) :
                         \E t \in SeqToSet(FindPhones(Get(RunLinks[i], "text", <<>>), 1)) :
                            NormalizedNumber(t) # want}
        IN  /\ (pv.issues = <<>>) <=> (TelLinks # {} /\ bad = {})
            /\ Cardinality(notFound) = (IF TelLinks \ bad = {} THEN 1 ELSE 0)
            /\ Cardinality(mismatch) = Cardinality(bad)
            /\ Len(pv.issues) = Cardinality(notFound) + Cardinality(mismatch)
            /\ (tokens # {}) <=> (pv.warnings # <<>>)
            /\ \A k \in 1..Len(pv.warnings) : pv.warnings[k][1] = "Phone in text doesn't match"
            /\ pv.issues # <<>> => result.value.success = FALSE
            /\ (RunLinks = <<ScenarioCLink>> /\ required_phone = RulePhone) => pv.issues = <<>>

\* tel:+17706370441 validated against the required phone 770-637-0441
C9_Witness ==
    /\ IsRun
    /\ RunLinks = <<ScenarioCLink>>
    /\ Get(RunRequired, "required_phone", <<>>) = RulePhone
    /\ result.value.phone_validation.issues = <<>>
    /\ result.value.phone_validation.phone_links[1].phone = NormalizedNumber(RulePhone)

\* C10: for every link whose URL does not start with mailto:, tel: or # and
\* every parameter of utm_requirements.expected_values, a link that carries
\* the parameter with another value gets a utm_errors entry and an issue,
\* and success is false.
C10_UtmValueMismatch ==
    IsRun =>
        LET uv == result.value.utm_validation
            expected_values == Get(Get(RunRequired, "utm_requirements", EmptyDict),
                                   "expected_values", <<>>)
        IN  \A i \in 1..Len(RunLinks), j \in 1..Len(expected_values) :
               LET url == Get(RunLinks[i], "url", <<>>)
                   utm_params == Get(RunLinks[i], "utm_params", EmptyDict)
                   param == expected_values[j][1]
               IN  (/\ ~NonTrackable(url)
                    /\ ("utm_" \o param) \in DOMAIN utm_params
                    /\ utm_params["utm_" \o param] # expected_values[j][2])
                   => /\ \E k \in 1..Len(uv.utm_errors) :
                             /\ uv.utm_errors[k].url = url
                             /\ uv.utm_errors[k].param = param
                      /\ \E k \in 1..Len(uv.issues) :
                             /\ uv.issues[k][1] = "UTM param mismatch"
                             /\ uv.issues[k][3] = param
                      /\ result.value.success = FALSE

\* expected_values without required_params: a link with another utm_source
\* value is accepted
C10_Witness ==
    /\ IsRun
    /\ "required_params" \notin DOMAIN Get(RunRequired, "utm_requirements", EmptyDict)
    /\ "expected_values" \in DOMAIN Get(RunRequired, "utm_requirements", EmptyDict)
    /\ \E i \in 1..Len(RunLinks) :
          /\ ~NonTrackable(RunLinks[i]["url"])
          /\ "utm_params" \in DOMAIN RunLinks[i]
          /\ Get(RunLinks[i]["utm_params"], "utm_source", "email") = "facebook"
    /\ result.value.utm_validation.utm_errors = <<>>
    /\ result.value.success = TRUE

\* the UTM requirements of the last _run
RunUtm == Get(RunRequired, "utm_requirements", EmptyDict)

\* the entries of a link list of utm_validation that describe the link
LinkEntries(entries, link) ==
    {k \in 1..Len(entries) :
        entries[k].url = Get(link, "url", <<>>) /\ entries[k].text = Get(link, "text", None)}

\* some required UTM key is not among the link's utm_params
LacksUtmKey(link, required_params) ==
    \E j \in 1..Len(required_params) :
        ("utm_" \o required_params[j]) \notin DOMAIN Get(link, "utm_params", EmptyDict)

\* C11: with non-empty required_params every link not using mailto:, tel:
\* or # is placed in exactly one of links_missing_utm (with one warning) and
\* links_with_utm; missing UTM keys never add an issue, so a run whose only
\* defect is missing keys has success = TRUE; mailto:, tel: and # links are
\* never reported.
C11_MissingUtmAdvisory ==
    (IsRun /\ Get(RunUtm, "required_params", <<>>) # <<>>) =>
        LET uv == result.value.utm_validation
            required_params == RunUtm["required_params"]
            same(i) == {k \in 1..Len(RunLinks) : RunLinks[k] = RunLinks[i]}
        IN  /\ \A i \in 1..Len(RunLinks) :
                  LET missing == Cardinality(LinkEntries(uv.links_missing_utm, RunLinks[i]))
                      with == Cardinality(LinkEntries(uv.links_with_utm, RunLinks[i]))
                  IN  IF NonTrackable(Get(RunLinks[i], "url", <<>>))
                      THEN missing = 0 /\ with = 0
                      ELSE IF LacksUtmKey(RunLinks[i], required_params)
                      THEN missing = Cardinality(same(i)) /\ with = 0
                      ELSE with = Cardinality(same(i)) /\ missing = 0
            /\ Len(uv.warnings) = Len(uv.links_missing_utm)
            /\ \A k \in 1..Len(uv.warnings) : uv.warnings[k][1] = "Link missing UTM params"
            /\ \A k \in 1..Len(uv.issues) : uv.issues[k][1] = "UTM param mismatch"
            /\ (uv.utm_errors = <<>> /\ result.value.warnings = uv.warnings)
                  => (result.value.issues = <<>> /\ result.value.success = TRUE)

\* a run with a link that lacks a required UTM key next to a mailto: link
C11_Witness ==
    /\ IsRun
    /\ Get(RunUtm, "required_params", <<>>) # <<>>
    /\ Len(result.value.utm_validation.links_missing_utm) = 1
    /\ \E i \in 1..Len(RunLinks) : StartsWith(RunLinks[i]["url"], MailtoPrefix)
    /\ result.value.success = TRUE

\* the required social handles of the last _run, as (platform, handle) items
RunSocial == Get(RunRequired, "required_social", <<>>)

\* the domains allow-listed for a platform
DomainsOf(platform) ==
    social_domains[CHOOSE p \in 1..Len(social_domains) : social_domains[p][1] = platform][2]

\* the links of the last _run whose URL is on one of the platform's domains
LinksOn(platform) ==
    {i \in 1..Len(RunLinks) :
        \E domain \in DomainsOf(platform) : Contains(domain, Lower(Get(RunLinks[i], "url", <<>>)))}

\* the handle carried by a link: its text when that starts with @, else the
\* first path segment of its URL after profile/, user/ and channel/
HandleOf(link) ==
    _extract_social_handle(Lower(Get(link, "url", <<>>)), Lower(Get(link, "text", <<>>)))

\* C12: for each required platform, no link on the platform's domains gives
\* a warning and no issue; a link on its domains whose handle differs from
\* the required handle (lower-cased, leading @ removed) gives an issue; a
\* link whose handle equals the required handle gives neither.
C12_SocialHandles ==
    IsRun =>
        LET sv == result.value.social_validation
        IN  \A r \in 1..Len(RunSocial) :
               LET platform == RunSocial[r][1]
                   required_handle == Strip(Lower(RunSocial[r][2]), {"@"})
                   issuesFor(h) == {k \in 1..Len(sv.issues) :
                                       sv.issues[k][2] = platform /\ sv.issues[k][4] = h}
                   warningsFor == {k \in 1..Len(sv.warnings) : sv.warnings[k][2] = platform}
               IN  /\ LinksOn(platform) = {} =>
                         (warningsFor # {} /\ \A k \in 1..Len(sv.issues) : sv.issues[k][2] # platform)
                   /\ \A i \in LinksOn(platform) :
                         /\ (HandleOf(RunLinks[i]) # <<>> /\ HandleOf(RunLinks[i]) # required_handle)
                               => issuesFor(HandleOf(RunLinks[i])) # {}
                         /\ HandleOf(RunLinks[i]) = required_handle
                               => (issuesFor(HandleOf(RunLinks[i])) = {} /\ warningsFor = {})

\* a link on the platform's domain whose handle is not the required one
\* passes without an issue
C12_Witness ==
    /\ IsRun
    /\ \E r \in 1..Len(RunSocial), i \in 1..Len(RunLinks) :
          /\ i \in LinksOn(RunSocial[r][1])
          /\ HandleOf(RunLinks[i]) # <<>>
          /\ HandleOf(RunLinks[i]) # Strip(Lower(RunSocial[r][2]), {"@"})
    /\ result.value.social_validation.issues = <<>>
    /\ result.value.success = TRUE

\* C17: once a client's rules are cached, load_rules under any name with the
\* same normalized key (lower-cased, spaces and hyphens as underscores)
\* returns the cached object without reading the file again; the cache only
\* holds documents that contain client_name, under normalized keys.
C17_CacheByNormalizedKey ==
    /\ [][(/\ call'.op = "load_rules"
           /\ ClientKey(call'.client_name) \in DOMAIN loaded_rules)
          => (/\ result' = Returned(loaded_rules[ClientKey(call'.client_name)])
              /\ loaded_rules' = loaded_rules)]_vars
    /\ [](\A k \in DOMAIN loaded_rules :
             /\ k \in ClientKeys
             /\ \A i \in 1..Len(k) : k[i] \notin {" ", "-"} /\ ~IsUpperChar(k[i])
             /\ "client_name" \in DOMAIN loaded_rules[k])

\* load_rules under another spelling of the client's name answered from the
\* cache after the rule file was replaced by one that is not JSON
C17_Witness ==
    /\ call.op = "load_rules"
    /\ result.raised = None
    /\ call.client_name # result.value["client_name"]
    /\ ClientKey(call.client_name) \in DOMAIN loaded_rules
    /\ result.value = loaded_rules[ClientKey(call.client_name)]
    /\ files[ClientKey(call.client_name)].kind = "invalid"

\* C18: whatever the segment and campaign arguments, given or omitted, every
\* rule section present in the rules is checked and has its entry in the
\* result's validations.
C18_PresentSectionsRun ==
    Checked =>
        \A section \in Sections \cap DOMAIN CheckedRules :
            ValidationKey(section) \in DOMAIN result.value.validations

\* rules with a segmentation section checked without a segment argument
C18_Witness ==
    /\ Checked
    /\ "segmentation" \in DOMAIN CheckedRules
    /\ call.segment = None
    /\ "segmentation" \notin DOMAIN result.value.validations
    /\ "modules" \in DOMAIN result.value.validations

\* some keyword of the module occurs in the text, case-insensitively
KeywordIn(module, text) ==
    \E i \in 1..Len(Get(module, "keywords", <<>>)) :
        Contains(Lower(module["keywords"][i]), Lower(text))

\* C19: for an email as the parser returns it (fields html_body and
\* plain_body), a module with a keyword in the plain-text body is in
\* found_modules and not in missing_modules, and a don't phrase in the
\* plain-text body is detected.
C19_PlainBodySearched ==
    (Checked /\ "plain_body" \in DOMAIN call.email_data) =>
        LET plain_body == call.email_data["plain_body"]
            v == result.value.validations
            required_modules == RequiredModules(Get(CheckedRules, "modules", EmptyDict),
                                                call.segment, call.campaign)
            donts == Get(Get(CheckedRules, "dos_and_donts", EmptyDict), "donts", <<>>)
        IN  /\ "modules" \in DOMAIN CheckedRules =>
                  \A i \in 1..Len(required_modules) :
                      KeywordIn(required_modules[i], plain_body) =>
                         /\ Count(v["modules"].found_modules, required_modules[i].name) > 0
                         /\ Count(v["modules"].missing_modules, required_modules[i].name) = 0
            /\ "dos_and_donts" \in DOMAIN CheckedRules =>
                  \A i \in 1..Len(donts) :
                      Contains(Lower(donts[i].phrase), Lower(plain_body)) =>
                         \E k \in 1..Len(v["copywriting"].donts_violations) :
                             v["copywriting"].donts_violations[k].phrase = Lower(donts[i].phrase)

\* a parsed email whose plain-text body holds a module keyword, and the
\* module is reported missing
C19_Witness ==
    /\ Checked
    /\ "plain_body" \in DOMAIN call.email_data
    /\ "modules" \in DOMAIN CheckedRules
    /\ \E i \in 1..Len(RequiredModules(CheckedRules["modules"], call.segment, call.campaign)) :
          LET module == RequiredModules(CheckedRules["modules"], call.segment, call.campaign)[i]
          IN  /\ KeywordIn(module, call.email_data["plain_body"])
              /\ Count(result.value.validations["modules"].missing_modules, module.name) > 0

\* some tel: link of the email has the number of the phone, both normalized
\* by the link validator
SamePhoneLinked(email_data, phone) ==
    \E i \in 1..Len(Get(email_data, "links", <<>>)) :
        LET url == Get(email_data["links"][i], "url", <<>>)
        IN  /\ StartsWith(url, TelPrefix)
            /\ _normalize_phone(SubSeq(url, Len(TelPrefix) + 1, Len(url))) = _normalize_phone(phone)

\* C20: brand_checks.phone is true exactly when some tel: link's number and
\* the rule's phone are equal after the link validator's normalization (all
\* non-digits removed, the leading 1 of an 11-digit number dropped).
C20_BrandPhoneNormalized ==
    (Checked /\ "phone" \in DOMAIN Get(CheckedRules, "brand", EmptyDict)) =>
        (result.value.validations["brand"].brand_checks["phone"]
            <=> SamePhoneLinked(call.email_data, CheckedRules["brand"]["phone"]))

\* the rule's phone and a tel: link agree after normalization, and the brand
\* check reports the phone as not found
C20_Witness ==
    /\ Checked
    /\ "phone" \in DOMAIN Get(CheckedRules, "brand", EmptyDict)
    /\ SamePhoneLinked(call.email_data, CheckedRules["brand"]["phone"])
    /\ result.value.validations["brand"].brand_checks["phone"] = FALSE
    /\ \E k \in 1..Len(result.value.warnings) :
          result.value.warnings[k][1] = "Brand phone number not found"

\* the last operation was _fix_encoding
IsFix == call.op = "_fix_encoding"

\* C16: _fix_encoding is idempotent: applied to its own output it changes
\* nothing, and no key of the repair table occurs in its output.
C16_FixEncodingIdempotent ==
    IsFix =>
        /\ _fix_encoding(result.value.text) = result.value.text
        /\ \A i \in 1..Len(ENCODING_FIXES) :
              ~Contains(ENCODING_FIXES[i][1], result.value.text)

\* an escaped entity whose repair leaves the entity itself in the output
C16_Witness ==
    /\ IsFix
    /\ call.text = <<"&","a","m","p",";","n","b","s","p",";">>
    /\ result.value.text = <<"&","n","b","s","p",";">>
    /\ _fix_encoding(result.value.text) = <<" ">>

\* the last operation was parse_document
IsParse == call.op = "parse_document"

\* C14: in every result of parse_document, every CTA with a non-empty
\* destination has that destination in links.
C14_CtaLinksInLinks ==
    IsParse =>
        \A i \in 1..Len(result.value.ctas) :
            result.value.ctas[i].link # <<>>
                => Count(result.value.links, result.value.ctas[i].link) > 0

\* an HTML document whose anchor is a CTA by its parent's class, and the
\* CTA's destination is the anchor's href and is not in links
C14_Witness ==
    /\ IsParse
    /\ call.content.kind = "html"
    /\ \E i \in 1..Len(result.value.ctas) :
          /\ result.value.ctas[i].link = ButtonLink.href
          /\ result.value.ctas[i].html_class = ButtonLink.parent_class[1]
          /\ Count(result.value.links, ButtonLink.href) = 0

\* a text line followed by a URL line with trailing punctuation: the CTA's
\* destination keeps the punctuation that the entry in links has lost
C14_WitnessText ==
    /\ IsParse
    /\ call.content.kind = "text"
    /\ \E i \in 1..Len(result.value.ctas) :
          LET link == result.value.ctas[i].link
          IN  /\ link # <<>>
              /\ link[Len(link)] = "."
              /\ Count(result.value.links, link) = 0
              /\ Count(result.value.links, SubSeq(link, 1, Len(link) - 1)) > 0

\* the lines of a text document that carry a subject label and the subject
SubjectLinesOf(text, subject) ==
    {i \in 1..Len(Split(text, "\n")) :
        LET line == Split(text, "\n")[i]
        IN  /\ AnyIn({<<"s","u","b","j","e","c","t",":">>, <<"s","u","b","j","e","c","t"," ","l","i","n","e",":">>, <<"s","l",":">>}, Lower(Strip(line, Whitespace)))
            /\ AfterColon(line) = subject}

Min(S) == CHOOSE x \in S : \A y \in S : x <= y

\* C15: in every result of parse_document, whichever format path produced
\* it, subject_lines has no empty or blank entry and no duplicate, and (for
\* a text document) its entries are in the order of their first occurrence.
C15_SubjectLinesClean ==
    IsParse =>
        LET subject_lines == result.value.subject_lines
        IN  /\ \A i \in 1..Len(subject_lines) :
                  /\ Strip(subject_lines[i], Whitespace) # <<>>
                  /\ Count(subject_lines, subject_lines[i]) = 1
            /\ call.content.kind = "text" =>
                  \A i, j \in 1..Len(subject_lines) :
                      i < j => /\ SubjectLinesOf(call.content.text, subject_lines[i]) # {}
                               /\ SubjectLinesOf(call.content.text, subject_lines[j]) # {}
                               /\ Min(SubjectLinesOf(call.content.text, subject_lines[i]))
                                     < Min(SubjectLinesOf(call.content.text, subject_lines[j]))

\* a message without a Subject header, and the empty text as its subject line
C15_Witness ==
    /\ IsParse
    /\ call.content.kind = "eml"
    /\ call.content.subject = Missing
    /\ result.value.subject_lines = << <<>> >>

\* the last operation was one of the email parsers
IsEmailParse == call.op \in {"parse_email", "_parse_eml_file", "_parse_html_file"}

\* C13: in the components returned by either email parser, for an HTML
\* document or a message with any number of text/html parts, every entry of
\* ctas has its (text, url) pair in links.
C13_CtasAmongLinks ==
    IsEmailParse =>
        \A i \in 1..Len(result.value.ctas) :
            \E j \in 1..Len(result.value.links) :
                /\ result.value.links[j].text = result.value.ctas[i].text
                /\ result.value.links[j].url = result.value.ctas[i].url

\* a message with two text/html parts parsed by parse_email: the CTA of the
\* first part is kept and the links are those of the second part alone
C13_Witness ==
    /\ call.op = "parse_email"
    /\ call.content.kind = "eml"
    /\ call.content.parts = <<HtmlPart(<<ButtonLink>>), HtmlPart(<<UpperLink, UrlText>>)>>
    /\ Len(result.value.ctas) = 2
    /\ result.value.ctas[1].url = ButtonLink.href
    /\ Len(result.value.links) = 1
    /\ result.value.links[1].url = UpperLink.href

\* the lines of the text document parse_document was applied to
CopyLinesOf == Split(FixContent(call.content).text, "\n")

\* parse_document was applied to text that took the line-oriented path
IsTextParse ==
    /\ call.op = "parse_document"
    /\ call.content.kind = "text"
    /\ FormatPath(call.content, call.filename) = "text"

\* the line carries a preview:, preheader: or preview text: label
HasPreviewLabel(line) ==
    AnyIn({<<"p","r","e","v","i","e","w",":">>, <<"p","r","e","h","e","a","d","e","r",":">>, <<"p","r","e","v","i","e","w"," ","t","e","x","t",":">>},
          Lower(Strip(line, Whitespace)))

PreviewLabelled(lines) == {i \in 1..Len(lines) : HasPreviewLabel(lines[i])}

\* C21: in line-oriented extraction preview_text is set by the first line
\* carrying a preview label; later matching lines leave it unchanged.
C21_FirstPreviewWins ==
    IsTextParse =>
        LET lines == CopyLinesOf
            labelled == PreviewLabelled(lines)
        IN  labelled # {} =>
               result.value.preview_text = AfterColon(lines[Min(labelled)])

\* two lines with a preview label and different values: preview_text is the
\* value of the second
C21_Witness ==
    /\ IsTextParse
    /\ CopyLinesOf = <<<<"P","r","e","v","i","e","w",":"," ","A">>,
                       <<"p","r","e","h","e","a","d","e","r",":"," ","B">>>>
    /\ result.value.preview_text = <<"B">>

\* the labels the line-oriented extraction knows, in lower case
Labels ==
    {<<"s","u","b","j","e","c","t",":">>, <<"s","u","b","j","e","c","t"," ","l","i","n","e",":">>, <<"s","l",":">>, <<"p","r","e","v","i","e","w",":">>, <<"p","r","e","h","e","a","d","e","r",":">>, <<"p","r","e","v","i","e","w"," ","t","e","x","t",":">>, <<"f","r","o","m"," ","n","a","m","e",":">>, <<"f","r","o","m"," ","e","m","a","i","l",":">>, <<"f","r","o","m",":">>, <<"s","e","g","m","e","n","t",":">>, <<"m","o","d","u","l","e",":">>, <<"s","e","c","t","i","o","n",":">>, <<"n","o","t","e",":">>, <<"i","m","p","o","r","t","a","n","t",":">>, <<"a","t","t","e","n","t","i","o","n",":">>}

IsLabelLine(line) == AnyIn(Labels, Lower(Strip(line, Whitespace)))

\* the lines that open a segment
SegmentHeaders(lines) ==
    {i \in 1..Len(lines) :
        Contains(<<"s","e","g","m","e","n","t",":">>, Lower(Strip(lines[i], Whitespace)))}

\* the non-empty lines after line i and before the next line with a label,
\* trimmed, in order
UnlabelledAfter(lines, i) ==
    LET later == {j \in (i + 1)..Len(lines) : IsLabelLine(lines[j])}
        stop == IF later = {} THEN Len(lines) + 1 ELSE Min(later)
    IN  SelectSeq([k \in 1..(stop - 1 - i) |-> Strip(lines[i + k], Whitespace)],
                  LAMBDA t : t # <<>>)

\* C22: a segment: line opens a named segment, and the requirement list of
\* the segment is exactly the unlabelled non-empty lines between that header
\* and the next line with a label, in order; lines after that label are not
\* appended to it.
C22_SegmentClosedByLabel ==
    IsTextParse =>
        LET lines == CopyLinesOf
            headers == SegmentHeaders(lines)
        IN  \A i \in headers :
               (\A j \in headers : j > i => AfterColon(lines[j]) # AfterColon(lines[i])) =>
                  /\ AfterColon(lines[i]) \in DOMAIN result.value.segments
                  /\ result.value.segments[AfterColon(lines[i])].requirements
                        = UnlabelledAfter(lines, i)

\* a subject: line after the segment header, then an unlabelled line: the
\* line after the label is in the requirement list of the segment
C22_Witness ==
    /\ IsTextParse
    /\ CopyLinesOf = <<<<"S","e","g","m","e","n","t",":"," ","v","i","p">>,
                       <<"S","u","b","j","e","c","t",":"," ","H","i">>,
                       <<"f","o","r"," ","y","o","u">>>>
    /\ result.value.segments[<<"v","i","p">>].requirements = <<<<"f","o","r"," ","y","o","u">>>>

\* trimmed, the line consists solely of uppercase letters and spaces, is 3
\* to 30 characters long and has at most 5 words
IsCtaLine(line) ==
    LET t == Strip(line, Whitespace)
    IN  /\ Len(t) >= 3 /\ Len(t) <= 30
        /\ \A k \in 1..Len(t) : IsUpperChar(t[k]) \/ t[k] \in Whitespace
        /\ WordCount(t) <= 5

\* the CTAs of the lines: one for each CTA line, in line order, with the URL
\* of the line after it, or the empty string
CtasOfLines(lines) ==
    LET at == SelectSeq([i \in 1..Len(lines) |-> i], LAMBDA i : IsCtaLine(lines[i]))
    IN  [k \in 1..Len(at) |->
            [text |-> Strip(lines[at[k]], Whitespace),
             link |-> IF at[k] < Len(lines) THEN NextUrl(lines[at[k] + 1]) ELSE <<>>,
             line_number |-> at[k]]]

\* C23: on the text path a line is recorded as a CTA exactly when, trimmed,
\* it consists solely of uppercase letters and spaces, is 3 to 30 characters
\* long and has at most 5 words (a candidate of 2 or of 31 characters is
\* never recorded); its destination is the URL of the line after it, or the
\* empty string, and ctas are in line order.  A subject: line, then SHOP NOW
\* followed by a URL line, gives that subject line and exactly one CTA.
C23_TextCtas ==
    IsTextParse =>
        /\ result.value.ctas = CtasOfLines(CopyLinesOf)
        /\ \A i \in 1..Len(result.value.ctas) :
              Len(result.value.ctas[i].text) \notin {2, 31}
        /\ CopyLinesOf = <<<<"S","u","b","j","e","c","t",":"," ","H","i">>,
                           <<"S","H","O","P"," ","N","O","W">>,
                           <<"h","t","t","p","s",":","/","/","a",".","c","o","/","s">>>>
              => /\ result.value.subject_lines = <<<<"H","i">>>>
                 /\ Len(result.value.ctas) = 1
                 /\ result.value.ctas[1].text = <<"S","H","O","P"," ","N","O","W">>
                 /\ result.value.ctas[1].link = <<"h","t","t","p","s",":","/","/","a",".","c","o","/","s">>

\* a line of 31 uppercase characters, one of 30 and a URL line: the line of
\* 30 is the one CTA, with the URL as its destination
C23_Witness ==
    /\ IsTextParse
    /\ CopyLinesOf = <<<<"S","H","O","P"," ","T","H","E"," ","N","E","W"," ","S","U","M","M","E","R"," ","C","O","L","L","E","C","T","I","O","N","S">>,
                       <<"S","H","O","P"," ","T","H","E"," ","N","E","W"," ","S","U","M","M","E","R"," ","C","O","L","L","E","C","T","I","O","N">>,
                       <<"h","t","t","p","s",":","/","/","a",".","c","o","/","s">>>>
    /\ Len(result.value.ctas) = 1
    /\ Len(result.value.ctas[1].text) = 30
    /\ result.value.ctas[1].link = <<"h","t","t","p","s",":","/","/","a",".","c","o","/","s">>

\* the file name decides the format: a binary type with bytes, .eml or .html
Deciding(content, filename) ==
    \/ content.kind = "docx" /\ Suffix(filename) = <<".","d","o","c","x">>
    \/ Suffix(filename) \in {<<".","e","m","l">>, <<".","h","t","m","l">>}

\* the Subject header of the content read as a message: markup and text
\* that do not begin with a Subject header line have none
MessageSubject(content) ==
    IF content.kind = "eml"
    THEN IF content.subject = Missing THEN <<>> ELSE content.subject
    ELSE IF content.kind = "text"
            /\ StartsWith(content.text, <<"S","u","b","j","e","c","t",":">>)
    THEN AfterColon(Split(content.text, "\n")[1])
    ELSE <<>>

\* C24: without a deciding file name extension, content with at least 2 of
\* the header tokens in its first 500 characters is parsed as a message,
\* also when it passes the HTML test (the header test comes first): its
\* subject_lines is the one Subject header, and it has no preview text and
\* no segments.
C24_MessageBeforeHtml ==
    (IsParse /\ ~Deciding(call.content, call.filename) /\ _is_eml(FixContent(call.content))) =>
        /\ result.value.subject_lines = <<MessageSubject(FixContent(call.content))>>
        /\ result.value.preview_text = <<>>
        /\ result.value.segments = EmptyDict

\* markup with a subject: and a from: paragraph and no file name passes both
\* tests and is parsed as HTML: the subject line is read from its text
C24_Witness ==
    /\ IsParse
    /\ call.filename = Missing
    /\ call.content = [kind |-> "html", elements |-> <<SubjectText, FromText>>]
    /\ _is_eml(call.content) /\ _is_html(call.content)
    /\ result.value = _parse_html_requirements(call.content.elements, <<>>)
    /\ result.value.subject_lines = <<<<"H","i">>>>

\* C25: whenever parse_document is given a file name with a binary
\* extension, the binary handler of that extension is chosen, whatever the
\* form of the content, and the content is not decoded, repaired or tested
\* for a text format before: the result is that of the handler.
C25_BinaryHandlerAlways ==
    (IsParse /\ Suffix(call.filename) = <<".","d","o","c","x">>) =>
        result.value = _parse_docx_binary(call.content)

\* text given under a .docx file name is parsed line by line
C25_Witness ==
    /\ IsParse
    /\ call.filename = <<"b",".","d","o","c","x">>
    /\ call.content = [kind |-> "text", text |-> <<"S","u","b","j","e","c","t",":"," ","H","i">>]
    /\ result.value = _parse_text_requirements(call.content.text, <<>>)
    /\ result.value.subject_lines = <<<<"H","i">>>>
    /\ result.value.special_notes = <<>>

\* an HTML document was parsed by one of the email parsers
IsHtmlEmailParse ==
    /\ call.op \in {"parse_email", "_parse_html_file"}
    /\ call.content.kind = "html"

\* the elements whose inline style or class marks them as preview text, in
\* document order
PreviewMarked(elements) ==
    SelectSeq(elements, LAMBDA e : \E n \in 1..4 : PreviewPattern(n, e))

\* C26: parsing HTML yields as preview_text the text of the first element of
\* the document whose style contains display:none, font-size:0 or
\* visibility:hidden or whose class contains preheader or preview, whatever
\* the length of the text and whichever the indicator, and the empty string
\* when there is no such element.
C26_FirstMarkedElement ==
    IsHtmlEmailParse =>
        LET marked == PreviewMarked(call.content.elements)
        IN  result.value.preview_text =
               IF marked = <<>> THEN <<>> ELSE StrippedText(marked[1])

\* a hidden span with a text of six characters: the tool returns no preview
\* text
C26_Witness ==
    /\ call.op = "_parse_html_file"
    /\ call.content.elements = <<ShortHidden>>
    /\ PreviewMarked(call.content.elements) = <<ShortHidden>>
    /\ result.value.preview_text = <<>>

\* a cell of class preview before a hidden preheader: the tool returns the
\* text of the second, found by an earlier pattern
C26_WitnessOrder ==
    /\ call.op = "_parse_html_file"
    /\ call.content.elements = <<ClassPreview, Preheader>>
    /\ result.value.preview_text = StrippedText(Preheader)

\* a cell of class preview alone: parse_email returns no preview text
C26_WitnessClass ==
    /\ call.op = "parse_email"
    /\ call.content.kind = "html"
    /\ call.content.elements = <<ClassPreview>>
    /\ result.value.preview_text = <<>>

\* the schemas that were read in full from a rule file and pass
\* _validate_rules_structure
CompleteSchemas ==
    {c.doc : c \in {w \in WrittenContents : w.kind = "json" /\ "client_name" \in DOMAIN w.doc}}

\* C27: with load_rules, validate_against_rules, get_required_ctas and
\* get_utm_requirements calls interleaved on one engine, a cache entry is
\* installed only by one assignment of a whole schema that was read in full
\* and passed the structure validation, no operation changes a cached schema
\* otherwise, and no caller holds rules that are partial or unvalidated,
\* also when two calls miss the cache for the same client at once.
C27_CacheWholeValidated ==
    /\ [](/\ \A k \in DOMAIN loaded_rules : loaded_rules[k] \in CompleteSchemas
          /\ \A t \in Threads :
                (call[t].pc \in {"return", "done"} /\ call[t].raised = None)
                   => call[t].rules \in CompleteSchemas)
    /\ [][loaded_rules' # loaded_rules =>
             \E t \in Threads :
                /\ call[t].pc = "install"
                /\ call[t].rules \in CompleteSchemas
                /\ loaded_rules' =
                      (ClientKey(call[t].client_name) :> call[t].rules) @@ loaded_rules
                /\ \A k \in DOMAIN loaded_rules \ {ClientKey(call[t].client_name)} :
                      loaded_rules'[k] = loaded_rules[k]]_vars

\* both threads missed the cache for the same client, read different
\* schemas from the replaced file and installed them one after the other
C27_Witness ==
    /\ \A t \in Threads : call[t].pc = "done" /\ ~call[t].hit /\ call[t].raised = None
    /\ ClientKey(call[1].client_name) = ClientKey(call[2].client_name)
    /\ call[1].rules # call[2].rules
    /\ loaded_rules[ClientKey(call[1].client_name)] \in {call[1].rules, call[2].rules}
    /\ call[1].op = "validate_against_rules"
    /\ result[1] = Returned(RunChecks(EmailGood, call[1].rules, call[1].client_name, None, None))

\* C28: a returned Requirements value is immutable: no step changes what a
\* holder of previously returned requirements reads (the text of each CTA
\* and encoding_issues included), and _extract_requirements_safely returns
\* requirements other than the ones it was given.
C28_ReturnedRequirementsImmutable ==
    [][/\ \A ref \in RequirementRefs(heap) : Observed(heap', ref) = Observed(heap, ref)
       /\ call'.op = "_extract_requirements_safely" => result'.value # call'.doc]_vars

\* the CTA casing rule has changed the text of a CTA of the requirements it
\* was given and returned those same requirements
C28_Witness ==
    /\ call.op = "_extract_requirements_safely"
    /\ CtaStyleOf(call.rules) = "lowercase"
    /\ result.value = call.doc
    /\ \E i \in 1..Len(heap[call.doc].value.ctas) :
          heap[call.doc].value.ctas[i].text = <<"s","h","o","p"," ","n","o","w">>

\* extract_email_components has added an issue to the encoding_issues of
\* requirements returned before it, whose encoding_fixed says none was found
C28_WitnessIssues ==
    /\ call.op = "extract_email_components"
    /\ \E ref \in RequirementRefs(heap) :
          /\ Observed(heap, ref).encoding_issues # <<>>
          /\ ~Observed(heap, ref).encoding_fixed

\* C29: create_rules leaves the default template unchanged: the rules a
\* call returns have, for every brand field its config does not supply,
\* the template's default (empty, UPPERCASE for the CTA style), and no call
\* changes what the template or rules returned earlier read.
C29_TemplateUnchanged ==
    /\ [](call.op = "create_rules" =>
            LET rules == ObservedRules(heap, result.value)
                has(key) == key \in DOMAIN call.config
            IN  /\ ~has("brand_tone") => rules.brand.tone.description = <<>>
                /\ ~has("cta_style") => rules.brand.cta.style = "UPPERCASE"
                /\ ~has("preferred_verbs") => rules.brand.cta.preferred_verbs = <<>>
                /\ ~has("dos") => rules.brand.dos = <<>>
                /\ ~has("donts") => rules.brand.donts = <<>>)
    /\ [][\A ref \in RulesRefs(heap) :
             ObservedRules(heap', ref).brand = ObservedRules(heap, ref).brand]_vars

\* a call whose config supplies no brand tone and no CTA style has returned
\* the tone and the style supplied to the call before it
C29_Witness ==
    /\ call.op = "create_rules"
    /\ DOMAIN call.config = {"segments"}
    /\ ObservedRules(heap, result.value).brand.tone.description = <<"w","a","r","m">>
    /\ ObservedRules(heap, result.value).brand.cta.style = "lowercase"

\* the template reads the dos supplied to a call
C29_WitnessTemplate ==
    /\ call.op = "create_rules"
    /\ ObservedRules(heap, instance.template).brand.dos = << <<"B","e"," ","k","i","n","d">> >>
    /\ ObservedRules(heap, instance.template).segments = EmptyDict

\* C30: per-run isolation of run_qa on one workflow: the errors and the
\* warnings of a returned result hold only entries produced during that
\* call (none more often than the call produced it), a result returned
\* earlier is not changed by a later call, and every returned result has
\* status COMPLETED or FAILED.
C30_RunIsolation ==
    /\ [](call.op = "run_qa" /\ result.raised = None =>
            LET steps == RunSteps(call.doc_content, call.email_content, call.rules)
                returned == ObservedResult(heap, result.value)
            IN  /\ \A e \in SeqToSet(returned.errors) :
                      Count(returned.errors, e) <= Count(steps.errors \o <<steps.raised>>, e)
                /\ \A w \in SeqToSet(returned.warnings) :
                      Count(returned.warnings, w) <= Count(steps.warnings, w))
    /\ [](\A ref \in ResultRefs(heap) : heap[ref].value.status \in {"COMPLETED", "FAILED"})
    /\ [][\A ref \in ResultRefs(heap) :
             ObservedResult(heap', ref) = ObservedResult(heap, ref)]_vars

\* a completed run on an email with an unsubscribe link has returned the
\* missing-unsubscribe warning of an earlier run
C30_Witness ==
    /\ call.op = "run_qa"
    /\ result.raised = None
    /\ call.email_content = [kind |-> "html", elements |-> <<OptOutLink>>]
    /\ ObservedResult(heap, result.value).status = "COMPLETED"
    /\ \E i \in 1..Len(ObservedResult(heap, result.value).warnings) :
          ObservedResult(heap, result.value).warnings[i]
             = <<"Missing unsubscribe link (CAN-SPAM requirement)">>

\* a completed run on contents that parse has returned the parsing error
\* of an earlier, failed run
C30_WitnessErrors ==
    /\ call.op = "run_qa"
    /\ result.raised = None
    /\ call.doc_content.kind # "none" /\ call.email_content.kind # "none"
    /\ ObservedResult(heap, result.value).status = "COMPLETED"
    /\ ObservedResult(heap, result.value).errors # <<>>

\* two completed runs have returned the same lists
C30_WitnessShared ==
    \E r1, r2 \in ResultRefs(heap) :
        /\ r1 # r2
        /\ heap[r1].value.warnings = heap[r2].value.warnings
        /\ heap[r1].value.errors = heap[r2].value.errors

\* a failed run has returned FAILED with the exception as its only error
C30_WitnessFailed ==
    /\ call.op = "run_qa"
    /\ result.raised = None
    /\ ObservedResult(heap, result.value) =
          [status |-> "FAILED", errors |-> << <<"Failed to parse input documents">> >>,
           warnings |-> <<>>]

====
